---- MODULE Spec2Model ----
(***************************************************************************)
(* Knowledge indexing and retrieval engine of cmosctl.                     *)
(*                                                                         *)
(*   _knowledge.py  segmenter, file enumeration, shorten                   *)
(*   kb.py          index_knowledge / search_knowledge over SQLite + FTS5  *)
(*   db.py          connect(): scoped connection, closed without commit    *)
(*                                                                         *)
(* Text is a sequence of one-character strings.  A value that Python holds *)
(* as None is the one-element sequence None, which no text equals.         *)
(***************************************************************************)
EXTENDS Integers, Sequences, FiniteSets, TLC

\* ------------------------------------------------------------------------
\* Bounds of the model
\* ------------------------------------------------------------------------

\* index_knowledge calls explored in one behaviour
MaxCalls == 2

\* ------------------------------------------------------------------------
\* Characters and Python string primitives
\* ------------------------------------------------------------------------

None == <<"<None>">>

\* str.isspace() on the characters of the model's alphabet
IsSpace(c) == c \in {" ", "\n", "\t"}

\* the byte the UTF-8 decoder rejects; errors="ignore" drops it
BadByte == "\\xff"

\* the backtick character (a string literal cannot hold it)
Backtick == "<backtick>"

RECURSIVE lstrip(_)
lstrip(s) ==
    IF s = <<>> THEN <<>>
    ELSE IF IsSpace(Head(s)) THEN lstrip(Tail(s)) ELSE s

RECURSIVE rstrip(_)
rstrip(s) ==
    IF s = <<>> THEN <<>>
    ELSE IF IsSpace(s[Len(s)]) THEN rstrip(SubSeq(s, 1, Len(s) - 1)) ELSE s

strip(s) == rstrip(lstrip(s))

RECURSIVE lstrip_hash(_)
lstrip_hash(s) ==
    IF s = <<>> THEN <<>>
    ELSE IF Head(s) = "#" THEN lstrip_hash(Tail(s)) ELSE s

startswith(s, prefix) ==
    /\ Len(s) >= Len(prefix)
    /\ SubSeq(s, 1, Len(prefix)) = prefix

\* str.split(): the maximal runs of non-whitespace characters
RECURSIVE split_from(_, _, _)
split_from(s, word, acc) ==
    IF s = <<>> THEN (IF word = <<>> THEN acc ELSE Append(acc, word))
    ELSE IF IsSpace(Head(s))
         THEN split_from(Tail(s), <<>>, IF word = <<>> THEN acc ELSE Append(acc, word))
         ELSE split_from(Tail(s), Append(word, Head(s)), acc)

split(s) == split_from(s, <<>>, <<>>)

\* " ".join(parts)
RECURSIVE join(_)
join(parts) ==
    IF parts = <<>> THEN <<>>
    ELSE IF Len(parts) = 1 THEN parts[1]
    ELSE parts[1] \o <<" ">> \o join(Tail(parts))

\* str.splitlines(): split at line breaks, no empty last line after a final break
RECURSIVE splitlines_from(_, _, _)
splitlines_from(s, line, acc) ==
    IF s = <<>> THEN (IF line = <<>> THEN acc ELSE Append(acc, line))
    ELSE IF Head(s) = "\n"
         THEN splitlines_from(Tail(s), <<>>, Append(acc, line))
         ELSE splitlines_from(Tail(s), Append(line, Head(s)), acc)

splitlines(text) == splitlines_from(text, <<>>, <<>>)

\* str.replace(old, new) for a one-character old
replace(s, old, new) == [i \in 1..Len(s) |-> IF s[i] = old THEN new ELSE s[i]]

\* Path.read_text(encoding="utf-8"), and on UnicodeDecodeError the same with
\* errors="ignore": the undecodable bytes are dropped
read_text(bytes) == SelectSeq(bytes, LAMBDA c : c # BadByte)

\* ------------------------------------------------------------------------
\* _knowledge.py: segmenter
\* ------------------------------------------------------------------------

collapse_spaces(text) == join(split(text))

\* the loop state of extract_paragraphs
SegInit ==
    [title |-> None, section |-> None, in_code_block |-> FALSE,
     buffer |-> <<>>, start_line |-> 1, blocks |-> <<>>]

\* the buffered lines that are non-empty once stripped, each stripped
RECURSIVE stripped_nonempty(_)
stripped_nonempty(buffer) ==
    IF buffer = <<>> THEN <<>>
    ELSE LET l == strip(Head(buffer))
         IN  (IF l = <<>> THEN <<>> ELSE <<l>>) \o stripped_nonempty(Tail(buffer))

\* variant: the joined lines are emitted without collapse_spaces
flush_keep_spaces(st) ==
    IF st.buffer = <<>> THEN st
    ELSE LET paragraph == join(stripped_nonempty(st.buffer))
         IN  [st EXCEPT
                !.blocks = IF paragraph # <<>>
                           THEN Append(@, [text |-> paragraph,
                                           line |-> st.start_line,
                                           section |-> st.section])
                           ELSE @,
                !.buffer = <<>>]

flush(st) ==
    IF st.buffer = <<>> THEN st
    ELSE LET paragraph == collapse_spaces(join(stripped_nonempty(st.buffer)))
         IN  [st EXCEPT
                !.blocks = IF paragraph # <<>>
                           THEN Append(@, [text |-> paragraph,
                                           line |-> st.start_line,
                                           section |-> st.section])
                           ELSE @,
                !.buffer = <<>>]

\* variant: a heading is taken as one inside a fenced block too
SegLine_heading_in_fence(st, index, raw_line) ==
    LET stripped == strip(raw_line)
    IN  IF startswith(stripped, <<Backtick, Backtick, Backtick>>)
        THEN [flush(st) EXCEPT !.in_code_block = ~st.in_code_block]
        ELSE IF startswith(stripped, <<"#">>)
        THEN LET f == flush(st)
                 heading_text == strip(lstrip_hash(stripped))
             IN  [f EXCEPT
                    !.title = IF f.title = None /\ startswith(stripped, <<"#", " ">>)
                              THEN (IF heading_text # <<>> THEN heading_text ELSE None)
                              ELSE @,
                    !.section = IF heading_text # <<>> THEN heading_text ELSE @]
        ELSE IF st.in_code_block THEN st
        ELSE IF stripped = <<>> THEN flush(st)
        ELSE [st EXCEPT
                !.start_line = IF st.buffer = <<>> THEN index ELSE @,
                !.buffer = Append(@, stripped)]

\* variant: the heading that sets the title leaves the section as it is
SegLine_title_no_section(st, index, raw_line) ==
    LET stripped == strip(raw_line)
    IN  IF startswith(stripped, <<Backtick, Backtick, Backtick>>)
        THEN [flush(st) EXCEPT !.in_code_block = ~st.in_code_block]
        ELSE IF st.in_code_block THEN st
        ELSE IF startswith(stripped, <<"#">>)
        THEN LET f == flush(st)
                 heading_text == strip(lstrip_hash(stripped))
                 sets_title == f.title = None /\ startswith(stripped, <<"#", " ">>)
                               /\ heading_text # <<>>
             IN  [f EXCEPT
                    !.title = IF sets_title THEN heading_text ELSE @,
                    !.section = IF heading_text # <<>> /\ ~sets_title
                                THEN heading_text ELSE @]
        ELSE IF stripped = <<>> THEN flush(st)
        ELSE [st EXCEPT
                !.start_line = IF st.buffer = <<>> THEN index ELSE @,
                !.buffer = Append(@, stripped)]

\* variant: a heading without text clears the section (section = heading_text)
SegLine_heading_resets(st, index, raw_line) ==
    LET stripped == strip(raw_line)
    IN  IF startswith(stripped, <<Backtick, Backtick, Backtick>>)
        THEN [flush(st) EXCEPT !.in_code_block = ~st.in_code_block]
        ELSE IF st.in_code_block THEN st
        ELSE IF startswith(stripped, <<"#">>)
        THEN LET f == flush(st)
                 heading_text == strip(lstrip_hash(stripped))
             IN  [f EXCEPT
                    !.title = IF f.title = None /\ startswith(stripped, <<"#", " ">>)
                              THEN (IF heading_text # <<>> THEN heading_text ELSE None)
                              ELSE @,
                    !.section = IF heading_text # <<>> THEN heading_text ELSE None]
        ELSE IF stripped = <<>> THEN flush(st)
        ELSE [st EXCEPT
                !.start_line = IF st.buffer = <<>> THEN index ELSE @,
                !.buffer = Append(@, stripped)]

\* variant: every level-1 heading sets the title, not only the first
SegLine_title_last(st, index, raw_line) ==
    LET stripped == strip(raw_line)
    IN  IF startswith(stripped, <<Backtick, Backtick, Backtick>>)
        THEN [flush(st) EXCEPT !.in_code_block = ~st.in_code_block]
        ELSE IF st.in_code_block THEN st
        ELSE IF startswith(stripped, <<"#">>)
        THEN LET f == flush(st)
                 heading_text == strip(lstrip_hash(stripped))
             IN  [f EXCEPT
                    !.title = IF startswith(stripped, <<"#", " ">>)
                              THEN (IF heading_text # <<>> THEN heading_text ELSE None)
                              ELSE @,
                    !.section = IF heading_text # <<>> THEN heading_text ELSE @]
        ELSE IF stripped = <<>> THEN flush(st)
        ELSE [st EXCEPT
                !.start_line = IF st.buffer = <<>> THEN index ELSE @,
                !.buffer = Append(@, stripped)]

\* variant: a fence line toggles the fenced block and leaves the buffer as it is
SegLine_fence_keeps_buffer(st, index, raw_line) ==
    LET stripped == strip(raw_line)
    IN  IF startswith(stripped, <<Backtick, Backtick, Backtick>>)
        THEN [st EXCEPT !.in_code_block = ~st.in_code_block]
        ELSE IF st.in_code_block THEN st
        ELSE IF startswith(stripped, <<"#">>)
        THEN LET f == flush(st)
                 heading_text == strip(lstrip_hash(stripped))
             IN  [f EXCEPT
                    !.title = IF f.title = None /\ startswith(stripped, <<"#", " ">>)
                              THEN (IF heading_text # <<>> THEN heading_text ELSE None)
                              ELSE @,
                    !.section = IF heading_text # <<>> THEN heading_text ELSE @]
        ELSE IF stripped = <<>> THEN flush(st)
        ELSE [st EXCEPT
                !.start_line = IF st.buffer = <<>> THEN index ELSE @,
                !.buffer = Append(@, stripped)]

\* one iteration of the loop over enumerate(lines, start=1)
SegLine(st, index, raw_line) ==
    LET stripped == strip(raw_line)
    IN  IF startswith(stripped, <<Backtick, Backtick, Backtick>>)
        THEN [flush(st) EXCEPT !.in_code_block = ~st.in_code_block]
        ELSE IF st.in_code_block THEN st
        ELSE IF startswith(stripped, <<"#">>)
        THEN LET f == flush(st)
                 heading_text == strip(lstrip_hash(stripped))
             IN  [f EXCEPT
                    !.title = IF f.title = None /\ startswith(stripped, <<"#", " ">>)
                              THEN (IF heading_text # <<>> THEN heading_text ELSE None)
                              ELSE @,
                    !.section = IF heading_text # <<>> THEN heading_text ELSE @]
        ELSE IF stripped = <<>> THEN flush(st)
        ELSE [st EXCEPT
                !.start_line = IF st.buffer = <<>> THEN index ELSE @,
                !.buffer = Append(@, stripped)]

RECURSIVE SegLoop(_, _, _)
SegLoop(st, lines, index) ==
    IF index > Len(lines) THEN st
    ELSE SegLoop(SegLine(st, index, lines[index]), lines, index + 1)

\* extract_paragraphs(text) -> (title, blocks)
extract_paragraphs(text) ==
    LET st == flush(SegLoop(SegInit, splitlines(text), 1))
    IN  [title |-> IF st.title = None THEN <<>> ELSE st.title,
         blocks |-> st.blocks]

\* recall.py keeps its own copy of the segmenter, lines 219-270
\* _collapse_spaces(text)
recall_collapse_spaces(text) == join(split(text))

\* flush() of _extract_paragraphs, lines 230-238
recall_flush(st) ==
    IF st.buffer = <<>> THEN st
    ELSE LET paragraph == recall_collapse_spaces(join(stripped_nonempty(st.buffer)))
         IN  [st EXCEPT
                !.blocks = IF paragraph # <<>>
                           THEN Append(@, [text |-> paragraph,
                                           line |-> st.start_line,
                                           section |-> st.section])
                           ELSE @,
                !.buffer = <<>>]

\* variant: a fence line toggles the fenced block without flushing the buffer
recall_SegLine_fence_keeps_buffer(st, index, raw_line) ==
    LET stripped == strip(raw_line)
    IN  IF startswith(stripped, <<Backtick, Backtick, Backtick>>)
        THEN [st EXCEPT !.in_code_block = ~st.in_code_block]
        ELSE IF st.in_code_block THEN st
        ELSE IF startswith(stripped, <<"#">>)
        THEN LET f == recall_flush(st)
                 heading_text == strip(lstrip_hash(stripped))
             IN  [f EXCEPT
                    !.title = IF f.title = None /\ startswith(stripped, <<"#", " ">>)
                              THEN (IF heading_text # <<>> THEN heading_text ELSE None)
                              ELSE @,
                    !.section = IF heading_text # <<>> THEN heading_text ELSE @]
        ELSE IF stripped = <<>> THEN recall_flush(st)
        ELSE [st EXCEPT
                !.start_line = IF st.buffer = <<>> THEN index ELSE @,
                !.buffer = Append(@, stripped)]

\* one iteration of the loop of _extract_paragraphs, lines 240-260
recall_SegLine(st, index, raw_line) ==
    LET stripped == strip(raw_line)
    IN  IF startswith(stripped, <<Backtick, Backtick, Backtick>>)
        THEN [recall_flush(st) EXCEPT !.in_code_block = ~st.in_code_block]
        ELSE IF st.in_code_block THEN st
        ELSE IF startswith(stripped, <<"#">>)
        THEN LET f == recall_flush(st)
                 heading_text == strip(lstrip_hash(stripped))
             IN  [f EXCEPT
                    !.title = IF f.title = None /\ startswith(stripped, <<"#", " ">>)
                              THEN (IF heading_text # <<>> THEN heading_text ELSE None)
                              ELSE @,
                    !.section = IF heading_text # <<>> THEN heading_text ELSE @]
        ELSE IF stripped = <<>> THEN recall_flush(st)
        ELSE [st EXCEPT
                !.start_line = IF st.buffer = <<>> THEN index ELSE @,
                !.buffer = Append(@, stripped)]

RECURSIVE recall_SegLoop(_, _, _)
recall_SegLoop(st, lines, index) ==
    IF index > Len(lines) THEN st
    ELSE recall_SegLoop(recall_SegLine(st, index, lines[index]), lines, index + 1)

\* _extract_paragraphs(text) -> (title, blocks)
recall_extract_paragraphs(text) ==
    LET st == recall_flush(recall_SegLoop(SegInit, splitlines(text), 1))
    IN  [title |-> IF st.title = None THEN <<>> ELSE st.title,
         blocks |-> st.blocks]

\* shorten(text, limit=280)
DEFAULT_SHORTEN_LIMIT == 280

\* text[:stop]: a negative stop counts from the end
slice_to(text, stop) ==
    IF stop >= 0
    THEN SubSeq(text, 1, IF stop < Len(text) THEN stop ELSE Len(text))
    ELSE SubSeq(text, 1, IF Len(text) + stop > 0 THEN Len(text) + stop ELSE 0)

\* shorten(text, limit=limit)
shorten(text, limit) ==
    IF Len(text) <= limit THEN text
    ELSE rstrip(slice_to(text, limit - 3)) \o <<".", ".", ".">>

\* ------------------------------------------------------------------------
\* The document tree
\* ------------------------------------------------------------------------

\* A file under the root: its directory below the root, its stem and its suffix.
PathA == [dir |-> "docs", stem |-> <<"x", "_", "y">>, suffix |-> ".md"]
PathB == [dir |-> "research", stem |-> <<"n">>, suffix |-> ".TXT"]
PathPy == [dir |-> "docs", stem |-> <<"z">>, suffix |-> ".py"]
PathOther == [dir |-> "notes", stem |-> <<"w">>, suffix |-> ".md"]

\* the files whose presence and content vary
Paths == {PathA, PathB}

\* files that are always in the tree and that no pass may index
FixedPaths == {PathPy, PathOther}

Absent == <<"<absent>">>

\* "# T", "", "ab b", "", "b"
DocA == <<"#", " ", "T", "\n", "\n", "a", "b", " ", "b", "\n", "\n", "b">>
\* DocA with a byte that does not decode: other bytes, same text
DocA2 == <<"#", " ", "T", "\n", BadByte, "\n", "a", "b", " ", "b", "\n", "\n", "b">>
\* "ab", "## S", "b b": no title
DocB == <<"a", "b", "\n", "#", "#", " ", "S", "\n", "b", " ", "b">>
Contents(p) ==
    IF p = PathA THEN {DocA, DocA2, DocB}
    ELSE {DocB}

\* "# T": a title and no paragraph
DocH == <<"#", " ", "T">>
\* the contents the files take where the recall path is exercised
QueryContents(p) == Contents(p) \cup {DocH}

ALLOWED_SUFFIXES == {".md", ".markdown", ".txt", ".rst"}

\* str.lower() on the suffixes of the model
suffix_lower(suffix) ==
    CASE suffix = ".TXT" -> ".txt"
      [] suffix = ".MD" -> ".md"
      [] OTHER -> suffix

\* position of a directory in the order (docs_dir, research_dir) of the scan
DirIndex(dir) == IF dir = "docs" THEN 1 ELSE 2

\* relative_path(path, root): the path below root.parent, as_posix()
RootName == "cmos"

relative_path(p) == <<RootName, p.dir, p.stem, p.suffix>>

\* a second root directory, given as kb_root: one file docs/o.md that holds DocB
\* and is never edited
OtherRoot == "kb"
Roots == {RootName, OtherRoot}
OtherFile == [dir |-> "docs", stem |-> <<"o">>, suffix |-> ".md"]

\* the order of the TEXT values relative_path produces (SQLite BINARY collation):
\* "cmos/docs/x_y.md" < "cmos/docs/z.py" < "cmos/notes/w.md" < "cmos/research/n.TXT"
\* < "kb/docs/o.md"
PathKey(rel) ==
    CASE rel = relative_path(PathA) -> 1
      [] rel = relative_path(PathPy) -> 2
      [] rel = relative_path(PathOther) -> 3
      [] rel = relative_path(PathB) -> 4
      [] rel = <<OtherRoot, OtherFile.dir, OtherFile.stem, OtherFile.suffix>> -> 5

\* _fingerprint(text): the SHA-1 digest of the text, taken as collision free
fingerprint_of(text) == <<"sha1", text>>

\* the fallback title: path.stem.replace("_", " ").replace("-", " ") or path.name
fallback_title(p) ==
    LET t == replace(replace(p.stem, "_", " "), "-", " ")
    IN  IF t # <<>> THEN t ELSE p.stem \o <<p.suffix>>

\* ------------------------------------------------------------------------
\* State
\* ------------------------------------------------------------------------

VARIABLES
    rootExists,        \* whether the root directory exists
    files,             \* Paths -> the bytes of the file, or Absent
    db,                \* the committed content of the database file
    connOpen,          \* whether a connection of connect() is open
    work,              \* the open connection's view: db plus its uncommitted changes
    pc,                \* position of index_knowledge
    force,             \* index_knowledge: force
    sources,           \* index_knowledge: the files still to visit
    seen_paths,        \* index_knowledge: seen_paths
    now,               \* index_knowledge: now
    existing_sources,  \* index_knowledge: existing_sources
    stale,             \* index_knowledge: entries of existing_sources still to visit
    stats,             \* index_knowledge: stats
    opened,            \* connections the last index_knowledge call has opened
    dirty,             \* whether that call raised with uncommitted changes pending
    pre,               \* the committed database when that call began
    prev,              \* the index_knowledge call before that call
    touched,           \* whether the tree was edited since that call began
    ncalls,            \* index_knowledge calls begun
    sq,                \* the last search_knowledge call and what it returned
    mtimes,            \* Paths -> st_mtime of the file
    INDEX_CACHE,       \* recall.py _INDEX_CACHE: root -> tuple of snippets
    INDEX_SIGNATURES,  \* recall.py _INDEX_SIGNATURES: root -> (path -> st_mtime)
    rq,                \* the last recall_knowledge or rebuild_index call and its result
    arg,               \* the lines of the text handed to the text functions
    ret                \* the last call of a text function and what it returned

indexVars == <<pc, force, sources, seen_paths, now, existing_sources, stale, stats,
               opened, dirty, pre, prev, touched, ncalls>>
treeVars == <<rootExists, files>>
dbVars == <<db, connOpen, work>>
cacheVars == <<INDEX_CACHE, INDEX_SIGNATURES>>
recallVars == <<mtimes, INDEX_CACHE, INDEX_SIGNATURES, rq>>
textVars == <<arg, ret>>
vars == <<rootExists, files, db, connOpen, work, pc, force, sources, seen_paths, now,
          existing_sources, stale, stats, opened, dirty, pre, prev, touched, ncalls,
          sq, mtimes, INDEX_CACHE, INDEX_SIGNATURES, rq, arg, ret>>

\* ------------------------------------------------------------------------
\* schema.py, migrations: the three tables of the knowledge base
\* ------------------------------------------------------------------------

\* kb_sources (id AUTOINCREMENT, path UNIQUE, last_indexed_ts, title, fingerprint),
\* kb_chunks (id AUTOINCREMENT, source_id, text, order_index, section, line),
\* kb_chunks_fts (rowid, text), and the AUTOINCREMENT counters of sqlite_sequence
EmptyDb ==
    [kb_sources |-> {}, kb_chunks |-> {}, kb_chunks_fts |-> {},
     seq_sources |-> 0, seq_chunks |-> 0]

\* variant: both DELETEs without their WHERE clause on source_id
remove_source_chunks_all(d, source_id) ==
    [d EXCEPT !.kb_chunks_fts = {}, !.kb_chunks = {}]

\* variant: the DELETE on kb_chunks_fts left out
remove_source_chunks_keep_fts(d, source_id) ==
    [d EXCEPT !.kb_chunks = {c \in @ : c.source_id # source_id}]

\* DELETE FROM kb_chunks_fts WHERE rowid IN (SELECT id FROM kb_chunks WHERE source_id = ?)
\* DELETE FROM kb_chunks WHERE source_id = ?
remove_source_chunks(d, source_id) ==
    LET ids == {c.id : c \in {x \in d.kb_chunks : x.source_id = source_id}}
    IN  [d EXCEPT
           !.kb_chunks_fts = {f \in @ : f.rowid \notin ids},
           !.kb_chunks = {c \in @ : c.source_id # source_id}]

\* INSERT INTO kb_chunks (...), then INSERT INTO kb_chunks_fts(rowid, text)
InsertChunk(d, source_id, index, block, text) ==
    LET chunk_id == d.seq_chunks + 1
    IN  [d EXCEPT
           !.kb_chunks = @ \cup {[id |-> chunk_id, source_id |-> source_id,
                                  order_index |-> index, section |-> block.section,
                                  line |-> block.line, text |-> text]},
           !.kb_chunks_fts = @ \cup {[rowid |-> chunk_id, text |-> text]},
           !.seq_chunks = chunk_id]

\* the loop of _insert_chunks from position i of enumerate(paragraphs); index is 0-based
RECURSIVE insert_chunks_from(_, _, _, _, _)
insert_chunks_from(d, source_id, paragraphs, i, count) ==
    IF i > Len(paragraphs) THEN [db |-> d, count |-> count]
    ELSE LET block == paragraphs[i]
             text == strip(block.text)
         IN  IF text = <<>>
             THEN insert_chunks_from(d, source_id, paragraphs, i + 1, count)
             ELSE insert_chunks_from(InsertChunk(d, source_id, i - 1, block, text),
                                     source_id, paragraphs, i + 1, count + 1)

\* _insert_chunks(conn, source_id, paragraphs) -> count
insert_chunks(d, source_id, paragraphs) ==
    insert_chunks_from(d, source_id, paragraphs, 1, 0)

\* UPDATE kb_sources SET title = ?, fingerprint = ?, last_indexed_ts = ? WHERE id = ?
UpdateSource(d, source_id, title, fingerprint, ts) ==
    [d EXCEPT !.kb_sources =
        {IF s.id = source_id
         THEN [s EXCEPT !.title = title, !.fingerprint = fingerprint,
                        !.last_indexed_ts = ts]
         ELSE s : s \in @}]

\* kb_sources.path is UNIQUE: whether an INSERT of rel_path would be refused
PathTaken(d, rel_path) == \E s \in d.kb_sources : s.path = rel_path

\* variant: the INSERT of before the kb_metadata_columns migration, which stores
\* neither title nor fingerprint
InsertSource_no_fingerprint(d, rel_path, title, fingerprint, ts) ==
    [d EXCEPT
       !.kb_sources = @ \cup {[id |-> d.seq_sources + 1, path |-> rel_path,
                               title |-> None, fingerprint |-> None,
                               last_indexed_ts |-> ts]},
       !.seq_sources = @ + 1]

\* INSERT INTO kb_sources (path, title, fingerprint, last_indexed_ts); the new id is
\* cursor.lastrowid.  path is UNIQUE: the caller checks PathTaken first.
InsertSource(d, rel_path, title, fingerprint, ts) ==
    [d EXCEPT
       !.kb_sources = @ \cup {[id |-> d.seq_sources + 1, path |-> rel_path,
                               title |-> title, fingerprint |-> fingerprint,
                               last_indexed_ts |-> ts]},
       !.seq_sources = @ + 1]

\* variant: a DELETE whose WHERE clause matches no row
DeleteSource_keep(d, source_id) == d

\* DELETE FROM kb_sources WHERE id = ?
DeleteSource(d, source_id) ==
    [d EXCEPT !.kb_sources = {s \in @ : s.id # source_id}]

\* ------------------------------------------------------------------------
\* _knowledge.py: iter_source_files
\* ------------------------------------------------------------------------

AllPaths == Paths \cup FixedPaths

Present(p) == rootExists /\ (p \in FixedPaths \/ files[p] # Absent)

FileBytes(p) == IF p \in FixedPaths THEN DocB ELSE files[p]

\* path.is_file() and path.suffix.lower() in ALLOWED_SUFFIXES, under docs or research
Eligible(p) ==
    /\ Present(p)
    /\ p.dir \in {"docs", "research"}
    /\ suffix_lower(p.suffix) \in ALLOWED_SUFFIXES

EligibleFiles == {p \in AllPaths : Eligible(p)}

\* list(iter_source_files(root)): docs before research; rglob fixes no order
\* inside a directory, so every order is possible there
iter_source_files ==
    LET n == Cardinality(EligibleFiles)
    IN  {s \in [1..n -> EligibleFiles] :
            /\ \A i, j \in 1..n : i # j => s[i] # s[j]
            /\ \A i, j \in 1..n : i < j => DirIndex(s[i].dir) <= DirIndex(s[j].dir)}

\* ------------------------------------------------------------------------
\* kb.py: index_knowledge
\* ------------------------------------------------------------------------

ZeroStats == [indexed |-> 0, skipped |-> 0, deleted |-> 0, chunks |-> 0]

NoSearch == [kind |-> "none"]
NoRecall == [kind |-> "none"]
NoReturn == [op |-> "none"]

Idle == pc \in {"idle", "done", "raised"}

\* SELECT id, path, fingerprint FROM kb_sources, as the dict path -> {id, fingerprint}
load_existing(d) ==
    [rel \in {s.path : s \in d.kb_sources} |->
        LET row == CHOOSE s \in d.kb_sources : s.path = rel
        IN  [id |-> row.id, fingerprint |-> row.fingerprint]]

\* the entries of existing_sources the second loop acts on, in dict order (the rows
\* of the SELECT, which come in id order)
RECURSIVE by_id(_, _)
by_id(existing, rels) ==
    IF rels = {} THEN <<>>
    ELSE LET first == CHOOSE r \in rels : \A o \in rels : existing[r].id <= existing[o].id
         IN  <<first>> \o by_id(existing, rels \ {first})

\* variant: the second loop left out
unseen_none(existing, seen) == <<>>

unseen(existing, seen) == by_id(existing, DOMAIN existing \ seen)

\* variant: the fingerprints are not compared
should_skip_known(existing, rel_path, f, fingerprint) ==
    /\ rel_path \in DOMAIN existing
    /\ ~f

\* variant: the force flag is not looked at
should_skip_ignores_force(existing, rel_path, f, fingerprint) ==
    /\ rel_path \in DOMAIN existing
    /\ existing[rel_path].fingerprint = fingerprint

\* line 86: existing and not force and existing.get("fingerprint") == fingerprint
should_skip(existing, rel_path, f, fingerprint) ==
    /\ rel_path \in DOMAIN existing
    /\ ~f
    /\ existing[rel_path].fingerprint = fingerprint

\* variant: a known Source is replaced by a new row (INSERT OR REPLACE) instead of
\* being updated in place
index_file_replace(d, existing, rel_path, title, fingerprint, paragraphs, ts) ==
    LET known == rel_path \in DOMAIN existing
        source_id == d.seq_sources + 1
        d0 == IF known
              THEN DeleteSource(remove_source_chunks(d, existing[rel_path].id),
                                existing[rel_path].id)
              ELSE d
        d1 == InsertSource(d0, rel_path, title, fingerprint, ts)
        r == insert_chunks(d1, source_id, paragraphs)
    IN  [db |-> r.db,
         count |-> r.count,
         existing |-> (rel_path :> [id |-> source_id, fingerprint |-> fingerprint])
                      @@ existing]

\* variant: the chunks of a known Source are not removed before the new ones are
\* inserted
index_file_keep_chunks(d, existing, rel_path, title, fingerprint, paragraphs, ts) ==
    LET known == rel_path \in DOMAIN existing
        source_id == IF known THEN existing[rel_path].id ELSE d.seq_sources + 1
        d1 == IF known
              THEN UpdateSource(d, source_id, title, fingerprint, ts)
              ELSE InsertSource(d, rel_path, title, fingerprint, ts)
        r == insert_chunks(d1, source_id, paragraphs)
    IN  [db |-> r.db,
         count |-> r.count,
         existing |-> IF known THEN existing
                      ELSE (rel_path :> [id |-> source_id, fingerprint |-> fingerprint])
                           @@ existing]

\* lines 90-114: the body of the first loop for a file that is not skipped
index_file(d, existing, rel_path, title, fingerprint, paragraphs, ts) ==
    LET known == rel_path \in DOMAIN existing
        source_id == IF known THEN existing[rel_path].id ELSE d.seq_sources + 1
        d1 == IF known
              THEN UpdateSource(remove_source_chunks(d, source_id), source_id,
                                title, fingerprint, ts)
              ELSE InsertSource(d, rel_path, title, fingerprint, ts)
        r == insert_chunks(d1, source_id, paragraphs)
    IN  [db |-> r.db,
         count |-> r.count,
         existing |-> IF known THEN existing
                      ELSE (rel_path :> [id |-> source_id, fingerprint |-> fingerprint])
                           @@ existing]

\* lines 56-71: up to the first loop.  A missing root returns the zero stats before
\* any connection is opened.
IndexBeginWith(f, root_exists) ==
    /\ Idle
    /\ ~connOpen
    /\ ncalls < MaxCalls
    /\ ncalls' = ncalls + 1
    /\ prev' = [ran |-> ncalls > 0, force |-> force, outcome |-> pc, touched |-> touched]
    /\ pre' = db
    /\ touched' = FALSE
    /\ force' = f
    /\ stats' = ZeroStats
    /\ sq' = NoSearch
    /\ seen_paths' = {}
    /\ stale' = <<>>
    /\ UNCHANGED <<treeVars, db, recallVars>>
    /\ dirty' = FALSE
    /\ IF ~root_exists
       THEN /\ pc' = "done"
            /\ opened' = 0
            /\ sources' = <<>>
            /\ UNCHANGED <<connOpen, work, now, existing_sources>>
       ELSE /\ \E order \in iter_source_files : sources' = order
            /\ now' = ncalls + 1
            /\ connOpen' = TRUE
            /\ opened' = 1
            /\ work' = db
            /\ existing_sources' = load_existing(db)
            /\ pc' = "files"
    /\ UNCHANGED textVars

\* variant: the early return of lines 59-60 left out
IndexBegin_unchecked(f) == IndexBeginWith(f, TRUE)

\* line 59: root.exists() decides
IndexBegin(f) == IndexBeginWith(f, rootExists)

\* lines 73-114: one iteration of the loop over sources
IndexFile ==
    /\ pc = "files"
    /\ sources # <<>>
    /\ LET path == Head(sources)
           rel_path == relative_path(path)
           text == read_text(FileBytes(path))
           fingerprint == fingerprint_of(text)
           seg == extract_paragraphs(text)
           title == IF seg.title = <<>> THEN fallback_title(path) ELSE seg.title
       IN  /\ seen_paths' = seen_paths \cup {rel_path}
           /\ sources' = Tail(sources)
           /\ IF should_skip(existing_sources, rel_path, force, fingerprint)
              THEN /\ stats' = [stats EXCEPT !.skipped = @ + 1]
                   /\ UNCHANGED <<work, existing_sources>>
              ELSE \* the UNIQUE constraint of kb_sources.path
                   /\ rel_path \in DOMAIN existing_sources \/ ~PathTaken(work, rel_path)
                   /\ LET r == index_file(work, existing_sources, rel_path, title,
                                          fingerprint, seg.blocks, now)
                      IN  /\ work' = r.db
                          /\ existing_sources' = r.existing
                          /\ stats' = [stats EXCEPT !.indexed = @ + 1,
                                                    !.chunks = @ + r.count]
    /\ UNCHANGED <<treeVars, db, connOpen, pc, force, now, stale, opened, dirty, pre, prev,
                   touched, ncalls, sq>>
    /\ UNCHANGED recallVars
    /\ UNCHANGED textVars

\* line 116: the first loop is over; the second starts over existing_sources.items()
IndexScan ==
    /\ pc = "files"
    /\ sources = <<>>
    /\ pc' = "deletes"
    /\ stale' = unseen(existing_sources, seen_paths)
    /\ UNCHANGED <<treeVars, dbVars, force, sources, seen_paths, now, existing_sources,
                   stats, opened, dirty, pre, prev,
                   touched, ncalls, sq>>
    /\ UNCHANGED recallVars
    /\ UNCHANGED textVars

\* lines 116-122: one iteration of the second loop that does not `continue`
IndexDelete ==
    /\ pc = "deletes"
    /\ stale # <<>>
    /\ LET source_id == existing_sources[Head(stale)].id
       IN  work' = DeleteSource(remove_source_chunks(work, source_id), source_id)
    /\ stats' = [stats EXCEPT !.deleted = @ + 1]
    /\ stale' = Tail(stale)
    /\ UNCHANGED <<treeVars, db, connOpen, pc, force, sources, seen_paths, now,
                   existing_sources, opened, dirty, pre, prev,
                   touched, ncalls, sq>>
    /\ UNCHANGED recallVars
    /\ UNCHANGED textVars

\* variant: connect() closes after the block, without try/finally
connect_exit_no_finally(conn_open, raised) == IF raised THEN conn_open ELSE FALSE

\* db.py connect(), lines 104-107: whether the connection is open once the with
\* block is left, by its end or by an exception: finally: conn.close()
connect_exit(conn_open, raised) == FALSE

\* variant: a committed index pass drops the recall cache
IndexCommit_drops_cache ==
    /\ pc = "deletes"
    /\ stale = <<>>
    /\ db' = work
    /\ work' = work
    /\ connOpen' = connect_exit(connOpen, FALSE)
    /\ pc' = "done"
    /\ seen_paths' = {}
    /\ existing_sources' = <<>>
    /\ INDEX_CACHE' = <<>>
    /\ INDEX_SIGNATURES' = <<>>
    /\ UNCHANGED <<treeVars, force, sources, now, stale, stats, opened, dirty, pre, prev,
                   touched, ncalls, sq, mtimes, rq>>
    /\ UNCHANGED textVars

\* lines 124-126, db.py connect(): conn.commit(), conn.close(), return stats; the
\* other locals of the call are gone
IndexCommit ==
    /\ pc = "deletes"
    /\ stale = <<>>
    /\ db' = work
    /\ work' = work
    /\ connOpen' = connect_exit(connOpen, FALSE)
    /\ pc' = "done"
    /\ seen_paths' = {}
    /\ existing_sources' = <<>>
    /\ UNCHANGED <<treeVars, force, sources, now, stale, stats, opened, dirty, pre, prev,
                   touched, ncalls, sq>>
    /\ UNCHANGED recallVars
    /\ UNCHANGED textVars

\* variant: the connection commits what is pending when it is closed
StorageError_commits ==
    /\ pc \in {"files", "deletes"}
    /\ connOpen' = connect_exit(connOpen, TRUE)
    /\ work' = work
    /\ db' = work
    /\ pc' = "raised"
    /\ dirty' = (work # db)
    /\ sources' = <<>>
    /\ seen_paths' = {}
    /\ existing_sources' = <<>>
    /\ stale' = <<>>
    /\ stats' = ZeroStats
    /\ UNCHANGED <<treeVars, force, now, opened, pre, prev, touched, ncalls, sq>>
    /\ UNCHANGED recallVars
    /\ UNCHANGED textVars

\* db.py connect(): a statement of the call raises sqlite3.Error; the finally clause
\* closes the connection, which was never committed, and the error propagates; the
\* locals of the call, stats included, are gone
StorageError ==
    /\ pc \in {"files", "deletes"}
    /\ connOpen' = connect_exit(connOpen, TRUE)
    /\ work' = db
    /\ db' = db
    /\ pc' = "raised"
    /\ dirty' = (work # db)
    /\ sources' = <<>>
    /\ seen_paths' = {}
    /\ existing_sources' = <<>>
    /\ stale' = <<>>
    /\ stats' = ZeroStats
    /\ UNCHANGED <<treeVars, force, now, opened, pre, prev, touched, ncalls, sq>>
    /\ UNCHANGED recallVars
    /\ UNCHANGED textVars

\* ------------------------------------------------------------------------
\* kb.py: search_knowledge
\* ------------------------------------------------------------------------

\* the letters and digits of the model's alphabet, and their lower-case form
Alnum == {"a", "b", "c", "d", "e", "h", "i", "l", "n", "o", "p", "r", "s", "t", "w",
          "x", "y", "z", "A", "B", "H", "S", "T"}

fold(c) ==
    CASE c = "A" -> "a"
      [] c = "B" -> "b"
      [] c = "H" -> "h"
      [] c = "S" -> "s"
      [] c = "T" -> "t"
      [] OTHER -> c

\* the FTS5 tokenizer (unicode61): the maximal runs of letters and digits, case folded
RECURSIVE fts_tokens_from(_, _, _)
fts_tokens_from(s, word, acc) ==
    IF s = <<>> THEN (IF word = <<>> THEN acc ELSE Append(acc, word))
    ELSE IF Head(s) \in Alnum
         THEN fts_tokens_from(Tail(s), Append(word, fold(Head(s))), acc)
         ELSE fts_tokens_from(Tail(s), <<>>, IF word = <<>> THEN acc ELSE Append(acc, word))

fts_tokens(text) == fts_tokens_from(text, <<>>, <<>>)

\* An FTS5 query string of barewords separated by spaces is the AND of its words;
\* any other character outside a quoted string, and a query without a word, is a
\* syntax error of the engine.
fts_syntax_ok(query) ==
    /\ \A i \in 1..Len(query) : query[i] \in Alnum \cup {" "}
    /\ fts_tokens(query) # <<>>

Occurrences(token, tokens) == Cardinality({i \in 1..Len(tokens) : tokens[i] = token})

\* kb_chunks_fts MATCH ?
fts_match(text, query) ==
    LET words == fts_tokens(query)
        have == fts_tokens(text)
    IN  \A i \in 1..Len(words) : Occurrences(words[i], have) > 0

RECURSIVE SumOccurrences(_, _)
SumOccurrences(words, have) ==
    IF words = <<>> THEN 0
    ELSE Occurrences(Head(words), have) + SumOccurrences(Tail(words), have)

\* bm25(kb_chunks_fts): the engine's rank of a matching row, lower is better.  The
\* engine's formula is not part of the program; what the program relies on is that
\* the rank is a function of the stored rows and the query, and that rows can tie.
\* Here: minus the number of occurrences of the query's words in the row.
bm25(text, query) == 0 - SumOccurrences(fts_tokens(query), fts_tokens(text))

\* the rows of the SELECT: kb_chunks_fts JOIN kb_chunks JOIN kb_sources WHERE MATCH
match_rows(d, query) ==
    {[chunk_id |-> c.id, path |-> s.path, title |-> s.title, section |-> c.section,
      line |-> c.line, text |-> c.text, order_index |-> c.order_index,
      rank |-> bm25(f.text, query)] :
        <<f, c, s>> \in {t \in d.kb_chunks_fts \X d.kb_chunks \X d.kb_sources :
                            /\ t[1].rowid = t[2].id
                            /\ t[2].source_id = t[3].id
                            /\ fts_match(t[1].text, query)}}

\* variant: ORDER BY rank ASC, s.path ASC, without the order_index
order_by_rank_path(a, b) ==
    \/ a.rank < b.rank
    \/ a.rank = b.rank /\ PathKey(a.path) < PathKey(b.path)

\* ORDER BY rank ASC, s.path ASC, c.order_index ASC: whether a must come before b
order_by(a, b) ==
    \/ a.rank < b.rank
    \/ a.rank = b.rank /\ PathKey(a.path) < PathKey(b.path)
    \/ a.rank = b.rank /\ a.path = b.path /\ a.order_index < b.order_index

\* the orders in which the engine may return the rows: any that the ORDER BY allows
RECURSIVE ordered_rows(_)
ordered_rows(rows) ==
    IF rows = {} THEN {<<>>}
    ELSE UNION {{<<first>> \o rest : rest \in ordered_rows(rows \ {first})} :
                   first \in {r \in rows : \A o \in rows : ~order_by(o, r)}}

max(a, b) == IF a >= b THEN a ELSE b

\* lines 141, 165-167: LIMIT ? is added only when max(limit, 0) > 0
apply_limit(rows, limit) ==
    LET limit_clause == max(limit, 0)
    IN  IF limit_clause > 0 /\ limit_clause < Len(rows)
        THEN SubSeq(rows, 1, limit_clause)
        ELSE rows

\* variant: the rank used as it comes, not clamped at 0
search_hit_unclamped(row) ==
    [path |-> row.path,
     title |-> IF row.title # <<>> /\ row.title # None THEN row.title ELSE row.path,
     section |-> row.section,
     line |-> row.line,
     snippet |-> shorten(row.text, DEFAULT_SHORTEN_LIMIT),
     score |-> [num |-> 1, den |-> 1 + row.rank]]

\* lines 171-186: a row as a SearchHit; the score 1 / (1 + max(rank, 0)) is the
\* fraction num / den
search_hit(row) ==
    [path |-> row.path,
     title |-> IF row.title # <<>> /\ row.title # None THEN row.title ELSE row.path,
     section |-> row.section,
     line |-> row.line,
     snippet |-> shorten(row.text, DEFAULT_SHORTEN_LIMIT),
     score |-> [num |-> 1, den |-> 1 + max(row.rank, 0)]]

\* the query passed on as it came
normalize_query_keep(query) == query

\* kb.py line 137, recall.py line 81: " ".join(query.split()).strip()
normalize_query(query) == strip(join(split(query)))

\* search_knowledge(query, limit=limit), from call to return or raise
Search(query, limit) ==
    /\ Idle
    /\ ~connOpen
    /\ LET normalized_query == normalize_query(query)
       IN  IF normalized_query = <<>>
           THEN \* line 139: raised before connect()
                /\ sq' = [kind |-> "ValueError", query |-> query, opened |-> 0]
                /\ UNCHANGED connOpen
           ELSE IF ~fts_syntax_ok(normalized_query)
           THEN \* the engine rejects the query; the exception leaves the with block
                /\ sq' = [kind |-> "OperationalError", query |-> query, opened |-> 1]
                /\ connOpen' = connect_exit(TRUE, TRUE)
           ELSE /\ \E rows \in ordered_rows(match_rows(db, normalized_query)) :
                     LET got == apply_limit(rows, limit)
                     IN  sq' = [kind |-> "hits", query |-> query, limit |-> limit,
                                opened |-> 1, rows |-> got,
                                hits |-> [i \in 1..Len(got) |-> search_hit(got[i])]]
                /\ connOpen' = connect_exit(TRUE, FALSE)
    /\ rq' = NoRecall
    /\ UNCHANGED <<treeVars, db, work, indexVars, mtimes, cacheVars>>
    /\ UNCHANGED textVars

\* the calls of search_knowledge the model makes
QueryBlank == <<" ", "\n">>
QueryA == <<" ", "A", "b", " ">>
QueryB == <<"b">>
QueryBad == <<"#">>

SearchInputs ==
    ({<<>>, QueryBlank, QueryBad, QueryA} \X {5})
    \cup ({QueryB} \X {0 - 1, 0, 1, 2})

\* ------------------------------------------------------------------------
\* recall.py: the in-memory recall path
\* ------------------------------------------------------------------------

\* largest modification time the tree's files take
MaxMtime == 1

\* recall.py _shorten(text, limit=280)
recall_shorten(text, limit) ==
    IF Len(text) <= limit THEN text
    ELSE LET truncated == rstrip(slice_to(text, limit - 3))
         IN  truncated \o <<".", ".", ".">>

\* str.lower()
lower(text) == [i \in 1..Len(text) |-> fold(text[i])]

\* variant: the runs of length 1 are kept
RECURSIVE tokenize_from_keep_short(_, _, _)
tokenize_from_keep_short(s, word, tokens) ==
    LET closed == IF Len(word) > 0 THEN Append(tokens, word) ELSE tokens
    IN  IF s = <<>> THEN closed
        ELSE IF Head(s) \in Alnum
             THEN tokenize_from_keep_short(Tail(s), Append(word, Head(s)), tokens)
             ELSE tokenize_from_keep_short(Tail(s), <<>>, closed)

\* _tokenize(text): the maximal runs of str.isalnum() characters of the lower-cased
\* text, those of length 1 dropped
RECURSIVE tokenize_from(_, _, _)
tokenize_from(s, word, tokens) ==
    LET closed == IF Len(word) > 1 THEN Append(tokens, word) ELSE tokens
    IN  IF s = <<>> THEN closed
        ELSE IF Head(s) \in Alnum
             THEN tokenize_from(Tail(s), Append(word, Head(s)), tokens)
             ELSE tokenize_from(Tail(s), <<>>, closed)

tokenize(text) == tokenize_from(lower(text), <<>>, <<>>)

\* needle in hay
contains(hay, needle) ==
    \E i \in 0..(Len(hay) - Len(needle)) : SubSeq(hay, i + 1, i + Len(needle)) = needle

\* hay.count(needle): occurrences that do not overlap, from the left
RECURSIVE count(_, _)
count(hay, needle) ==
    IF Len(hay) < Len(needle) THEN 0
    ELSE IF SubSeq(hay, 1, Len(needle)) = needle
         THEN 1 + count(SubSeq(hay, Len(needle) + 1, Len(hay)), needle)
         ELSE count(Tail(hay), needle)

RECURSIVE sum_counts(_, _)
sum_counts(text_lower, tokens) ==
    IF tokens = {} THEN 0
    ELSE LET t == CHOOSE x \in tokens : TRUE
         IN  count(text_lower, t) + sum_counts(text_lower, tokens \ {t})

min(a, b) == IF a <= b THEN a ELSE b

CharCount(text, c) == Cardinality({i \in 1..Len(text) : text[i] = c})

RECURSIVE common_chars(_, _, _)
common_chars(a, b, chars) ==
    IF chars = {} THEN 0
    ELSE LET c == CHOOSE x \in chars : TRUE
         IN  min(CharCount(a, c), CharCount(b, c)) + common_chars(a, b, chars \ {c})

\* SequenceMatcher(None, a, b).quick_ratio() = 2.0 * matches / (len(a) + len(b)),
\* matches the size of the multiset intersection of the characters; as a fraction
quick_ratio(a, b) ==
    IF Len(a) + Len(b) = 0 THEN [num |-> 1, den |-> 1]
    ELSE [num |-> 2 * common_chars(a, b, {a[i] : i \in 1..Len(a)}),
          den |-> Len(a) + Len(b)]

\* variant: a ratio of 0.6 passes the threshold
score_snippet_from_threshold(text, tokens, query_lower) ==
    LET text_lower == lower(text)
        distinct == {tokens[i] : i \in 1..Len(tokens)}
        direct_hits == sum_counts(text_lower, distinct)
        ratio == quick_ratio(query_lower, text_lower)
        unique_hits == Cardinality({t \in distinct : contains(text_lower, t)})
    IN  IF direct_hits = 0 /\ ~contains(text_lower, query_lower)
        THEN (IF 10 * ratio.num >= 6 * ratio.den THEN ratio ELSE [num |-> 0, den |-> 1])
        ELSE [num |-> 4 * direct_hits
                      + (IF contains(text_lower, query_lower) THEN 4 ELSE 0)
                      + unique_hits,
              den |-> 4]

\* variant: one count per token of the list, a repeated token counted again
RECURSIVE sum_counts_list(_, _)
sum_counts_list(text_lower, tokens) ==
    IF tokens = <<>> THEN 0
    ELSE count(text_lower, Head(tokens)) + sum_counts_list(text_lower, Tail(tokens))

score_snippet_per_list(text, tokens, query_lower) ==
    LET text_lower == lower(text)
        distinct == {tokens[i] : i \in 1..Len(tokens)}
        direct_hits == sum_counts_list(text_lower, tokens)
        ratio == quick_ratio(query_lower, text_lower)
        unique_hits == Cardinality({t \in distinct : contains(text_lower, t)})
    IN  IF direct_hits = 0 /\ ~contains(text_lower, query_lower)
        THEN (IF 10 * ratio.num > 6 * ratio.den THEN ratio ELSE [num |-> 0, den |-> 1])
        ELSE [num |-> 4 * direct_hits
                      + (IF contains(text_lower, query_lower) THEN 4 ELSE 0)
                      + unique_hits,
              den |-> 4]

\* variant: the score of a direct hit without the 0.25 per distinct token found
score_snippet_no_unique_bonus(text, tokens, query_lower) ==
    LET text_lower == lower(text)
        distinct == {tokens[i] : i \in 1..Len(tokens)}
        direct_hits == sum_counts(text_lower, distinct)
        ratio == quick_ratio(query_lower, text_lower)
    IN  IF direct_hits = 0 /\ ~contains(text_lower, query_lower)
        THEN (IF 10 * ratio.num > 6 * ratio.den THEN ratio ELSE [num |-> 0, den |-> 1])
        ELSE [num |-> 4 * direct_hits
                      + (IF contains(text_lower, query_lower) THEN 4 ELSE 0),
              den |-> 4]

\* _score_snippet(snippet, tokens, query_lower), as a fraction num / den; the dict
\* `values` holds one count per distinct token
score_snippet(text, tokens, query_lower) ==
    LET text_lower == lower(text)
        distinct == {tokens[i] : i \in 1..Len(tokens)}
        direct_hits == sum_counts(text_lower, distinct)
        ratio == quick_ratio(query_lower, text_lower)
        unique_hits == Cardinality({t \in distinct : contains(text_lower, t)})
    IN  IF direct_hits = 0 /\ ~contains(text_lower, query_lower)
        THEN (IF 10 * ratio.num > 6 * ratio.den THEN ratio ELSE [num |-> 0, den |-> 1])
        ELSE [num |-> 4 * direct_hits
                      + (IF contains(text_lower, query_lower) THEN 4 ELSE 0)
                      + unique_hits,
              den |-> 4]

\* variant: the title of the text is kept when it is empty
file_snippets_no_fallback(p) ==
    LET text == read_text(FileBytes(p))
        seg == recall_extract_paragraphs(text)
    IN  [i \in 1..Len(seg.blocks) |->
            [path |-> p, rel_path |-> relative_path(p), title |-> seg.title,
             section |-> seg.blocks[i].section, line |-> seg.blocks[i].line,
             text |-> seg.blocks[i].text]]

\* the snippets _build_index makes of one file
file_snippets(p) ==
    LET text == read_text(FileBytes(p))
        seg == recall_extract_paragraphs(text)
        title == IF seg.title = <<>> THEN fallback_title(p) ELSE seg.title
    IN  [i \in 1..Len(seg.blocks) |->
            [path |-> p, rel_path |-> relative_path(p), title |-> title,
             section |-> seg.blocks[i].section, line |-> seg.blocks[i].line,
             text |-> seg.blocks[i].text]]

RECURSIVE concat_snippets(_)
concat_snippets(order) ==
    IF order = <<>> THEN <<>>
    ELSE file_snippets(Head(order)) \o concat_snippets(Tail(order))

\* _build_index(root): the tuples it may return, one per order of the scan;
\* _iter_source_files yields nothing when the root does not exist
build_index == {concat_snippets(order) : order \in iter_source_files}

\* Path.stat().st_mtime, 0.0 on FileNotFoundError
st_mtime(p) ==
    IF ~Present(p) THEN 0 ELSE IF p \in FixedPaths THEN 0 ELSE mtimes[p]

\* _build_signature(snippets): the modification time of every path a snippet names
build_signature(snippets) ==
    [p \in {snippets[i].path : i \in 1..Len(snippets)} |-> st_mtime(p)]

\* _collect_signature(root): the modification time of every eligible file
collect_signature == [p \in EligibleFiles |-> st_mtime(p)]

\* the snippets _build_index makes of the second root
OtherSnippets ==
    LET seg == recall_extract_paragraphs(read_text(DocB))
        title == IF seg.title = <<>> THEN fallback_title(OtherFile) ELSE seg.title
    IN  [i \in 1..Len(seg.blocks) |->
            [path |-> OtherFile,
             rel_path |-> <<OtherRoot, OtherFile.dir, OtherFile.stem, OtherFile.suffix>>,
             title |-> title, section |-> seg.blocks[i].section,
             line |-> seg.blocks[i].line, text |-> seg.blocks[i].text]]

\* _build_index(root), _build_signature(snippets) and _collect_signature(root)
\* for either root
build_index_at(root) == IF root = RootName THEN build_index ELSE {OtherSnippets}

build_signature_at(root, snippets) ==
    IF root = RootName THEN build_signature(snippets)
    ELSE [p \in {snippets[i].path : i \in 1..Len(snippets)} |-> 0]

collect_signature_at(root) ==
    IF root = RootName THEN collect_signature ELSE [p \in {OtherFile} |-> 0]

\* variant: the cached tuple is returned whenever the same files are there
cache_current_same_files(root) ==
    /\ root \in DOMAIN INDEX_CACHE
    /\ root \in DOMAIN INDEX_SIGNATURES
    /\ DOMAIN collect_signature = DOMAIN INDEX_SIGNATURES[root]

\* _load_index(root), lines 134-139: whether the cached tuple is returned as it is
cache_current(root) ==
    /\ root \in DOMAIN INDEX_CACHE
    /\ root \in DOMAIN INDEX_SIGNATURES
    /\ collect_signature_at(root) = INDEX_SIGNATURES[root]

\* a < b for scores
ScoreLess(a, b) == a.num * b.den < b.num * a.den

\* variant: the score taken as it is in the key, so that low scores come first
sort_before_ascending(a, b) ==
    LET tie == ~ScoreLess(a.score, b.score) /\ ~ScoreLess(b.score, a.score)
    IN  \/ ScoreLess(a.score, b.score)
        \/ tie /\ PathKey(a.snippet.rel_path) < PathKey(b.snippet.rel_path)
        \/ tie /\ a.snippet.rel_path = b.snippet.rel_path
               /\ a.snippet.line < b.snippet.line

\* the sort key (-score, rel_path, line) of line 102: whether a sorts before b
sort_before(a, b) ==
    LET tie == ~ScoreLess(a.score, b.score) /\ ~ScoreLess(b.score, a.score)
    IN  \/ ScoreLess(b.score, a.score)
        \/ tie /\ PathKey(a.snippet.rel_path) < PathKey(b.snippet.rel_path)
        \/ tie /\ a.snippet.rel_path = b.snippet.rel_path
               /\ a.snippet.line < b.snippet.line

\* list.sort is stable: items with equal keys keep their order in `scored`
RECURSIVE sort_scored(_)
sort_scored(scored) ==
    IF scored = <<>> THEN <<>>
    ELSE LET least(i) == \A j \in 1..Len(scored) : ~sort_before(scored[j], scored[i])
             k == CHOOSE i \in 1..Len(scored) :
                     least(i) /\ \A j \in 1..(i - 1) : ~least(j)
             rest == [j \in 1..(Len(scored) - 1) |->
                         IF j < k THEN scored[j] ELSE scored[j + 1]]
         IN  <<scored[k]>> \o sort_scored(rest)

RECURSIVE score_all(_, _, _)
score_all(snippets, tokens, query_lower) ==
    IF snippets = <<>> THEN <<>>
    ELSE LET sc == score_snippet(Head(snippets).text, tokens, query_lower)
             rest == score_all(Tail(snippets), tokens, query_lower)
         IN  IF sc.num > 0
             THEN <<[score |-> sc, snippet |-> Head(snippets)]>> \o rest
             ELSE rest

\* lines 105-116: a scored snippet as a RecallResult
recall_result(item) ==
    LET short == recall_shorten(item.snippet.text, DEFAULT_SHORTEN_LIMIT)
        section == item.snippet.section
    IN  [path |-> item.snippet.rel_path,
         title |-> item.snippet.title,
         excerpt |-> IF section # None /\ section # <<>> /\ ~contains(short, section)
                     THEN section \o <<":", " ">> \o short
                     ELSE short,
         score |-> item.score,
         line |-> item.snippet.line]

\* lines 93-117: score, sort, cut, shape
recall_results(snippets, tokens, query_lower, limit) ==
    LET sorted == sort_scored(score_all(snippets, tokens, query_lower))
        n == IF limit > 0 THEN min(limit, Len(sorted)) ELSE Len(sorted)
    IN  [i \in 1..n |-> recall_result(sorted[i])]

\* variant: only a blank query is rejected
recall_rejects_blank_only(query) == normalize_query(query) = <<>>

\* lines 81-87: what recall_knowledge raises before it touches the cache, if anything
recall_rejects(query) ==
    \/ normalize_query(query) = <<>>
    \/ tokenize(normalize_query(query)) = <<>>

\* recall_knowledge(query, limit=limit, kb_root=root), from call to return or raise.
\* `loaded` tells whether _load_index ran, `rebuilt` whether it rebuilt, `before`
\* what the cache and the signatures were when the call began, `snippets` the
\* tuple _load_index returned, which is the one scored.
RecallAt(root, query, limit) ==
    /\ Idle
    /\ ~connOpen
    /\ sq' = NoSearch
    /\ IF recall_rejects(query)
       THEN /\ rq' = [kind |-> "ValueError", root |-> root, query |-> query,
                      loaded |-> FALSE, rebuilt |-> FALSE, before |-> cacheVars]
            /\ UNCHANGED cacheVars
       ELSE LET normalized_query == normalize_query(query)
                query_tokens == tokenize(normalized_query)
            IN  IF cache_current(root)
                THEN /\ rq' = [kind |-> "results", root |-> root, query |-> query,
                               limit |-> limit, loaded |-> TRUE, rebuilt |-> FALSE,
                               before |-> cacheVars,
                               snippets |-> INDEX_CACHE[root],
                               results |-> recall_results(INDEX_CACHE[root], query_tokens,
                                                          lower(normalized_query), limit)]
                     /\ UNCHANGED cacheVars
                ELSE \E snippets \in build_index_at(root) :
                        /\ INDEX_CACHE' = (root :> snippets) @@ INDEX_CACHE
                        /\ INDEX_SIGNATURES' =
                              (root :> build_signature_at(root, snippets))
                              @@ INDEX_SIGNATURES
                        /\ rq' = [kind |-> "results", root |-> root, query |-> query,
                                  limit |-> limit, loaded |-> TRUE, rebuilt |-> TRUE,
                                  before |-> cacheVars,
                                  snippets |-> snippets,
                                  results |-> recall_results(snippets, query_tokens,
                                                             lower(normalized_query),
                                                             limit)]
    /\ UNCHANGED <<treeVars, dbVars, indexVars, mtimes>>
    /\ UNCHANGED textVars

\* recall_knowledge(query, limit=limit) with the root of the tree that is indexed
Recall(query, limit) == RecallAt(RootName, query, limit)

\* variant: rebuild_index goes through _load_index
Rebuild_lazy ==
    /\ Idle
    /\ ~connOpen
    /\ sq' = NoSearch
    /\ IF cache_current(RootName)
       THEN /\ rq' = [kind |-> "count", count |-> Len(INDEX_CACHE[RootName]),
                      before |-> cacheVars]
            /\ UNCHANGED cacheVars
       ELSE \E snippets \in build_index :
               /\ INDEX_CACHE' = (RootName :> snippets) @@ INDEX_CACHE
               /\ INDEX_SIGNATURES' =
                     (RootName :> build_signature(snippets)) @@ INDEX_SIGNATURES
               /\ rq' = [kind |-> "count", count |-> Len(snippets), before |-> cacheVars]
    /\ UNCHANGED <<treeVars, dbVars, indexVars, mtimes>>
    /\ UNCHANGED textVars

\* variant: one entry for all roots, kept under the default root
RebuildAt_one_key(root) ==
    /\ Idle
    /\ ~connOpen
    /\ sq' = NoSearch
    /\ \E snippets \in build_index_at(root) :
          /\ INDEX_CACHE' = (RootName :> snippets) @@ INDEX_CACHE
          /\ INDEX_SIGNATURES' =
                (RootName :> build_signature_at(root, snippets)) @@ INDEX_SIGNATURES
          /\ rq' = [kind |-> "count", root |-> root, count |-> Len(snippets),
                    before |-> cacheVars]
    /\ UNCHANGED <<treeVars, dbVars, indexVars, mtimes>>
    /\ UNCHANGED textVars

\* rebuild_index(kb_root=root)
RebuildAt(root) ==
    /\ Idle
    /\ ~connOpen
    /\ sq' = NoSearch
    /\ \E snippets \in build_index_at(root) :
          /\ INDEX_CACHE' = (root :> snippets) @@ INDEX_CACHE
          /\ INDEX_SIGNATURES' =
                (root :> build_signature_at(root, snippets)) @@ INDEX_SIGNATURES
          /\ rq' = [kind |-> "count", root |-> root, count |-> Len(snippets),
                    before |-> cacheVars]
    /\ UNCHANGED <<treeVars, dbVars, indexVars, mtimes>>
    /\ UNCHANGED textVars

\* rebuild_index() with the root of the tree that is indexed
Rebuild == RebuildAt(RootName)

\* the calls of recall_knowledge the model makes: "ab" is a token, "a" and "b" are not
RecallA == <<"a">>
RecallAB == <<" ", "a", "b", " ">>
RecallBB == <<"b", " ", "b">>
RecallBA == <<"b", "a">>

\* "bb ccc" is at ratio 0.6 from "ab b" and above it from "b b"; "bbcc" is at
\* ratio 0.5 from "ab b"
RecallBBC == <<"b", "b", " ", "c", "c", "c">>
RecallBBCC == <<"b", "b", "c", "c">>

\* "ab c": the token "ab" is in "ab b" and the query is not
RecallABC == <<"a", "b", " ", "c">>

RecallInputs ==
    ({<<>>, QueryBlank, QueryBad, RecallA, RecallBB, RecallBBC, RecallBBCC, RecallABC}
        \X {5})
    \cup ({RecallAB, RecallBA} \X {0, 1})
    \cup ({RecallBA} \X {0 - 1, 2})

\* ------------------------------------------------------------------------
\* The operator's edits of the tree, between calls
\* ------------------------------------------------------------------------

WriteFile(p, bytes) ==
    /\ Idle
    /\ rootExists
    /\ files[p] # bytes
    /\ files' = [files EXCEPT ![p] = bytes]
    /\ sq' = NoSearch
    /\ touched' = TRUE
    /\ UNCHANGED <<rootExists, dbVars, pc, force, sources, seen_paths, now, existing_sources,
                   stale, stats, opened, dirty, pre, prev, ncalls>>
    /\ UNCHANGED recallVars
    /\ UNCHANGED textVars

RemoveFile(p) ==
    /\ Idle
    /\ rootExists
    /\ files[p] # Absent
    /\ files' = [files EXCEPT ![p] = Absent]
    /\ sq' = NoSearch
    /\ touched' = TRUE
    /\ UNCHANGED <<rootExists, dbVars, pc, force, sources, seen_paths, now, existing_sources,
                   stale, stats, opened, dirty, pre, prev, ncalls>>
    /\ UNCHANGED recallVars
    /\ UNCHANGED textVars

RemoveRoot ==
    /\ Idle
    /\ rootExists
    /\ rootExists' = FALSE
    /\ files' = [p \in Paths |-> Absent]
    /\ sq' = NoSearch
    /\ touched' = TRUE
    /\ UNCHANGED <<dbVars, pc, force, sources, seen_paths, now, existing_sources,
                   stale, stats, opened, dirty, pre, prev, ncalls>>
    /\ UNCHANGED recallVars
    /\ UNCHANGED textVars

CreateRoot ==
    /\ Idle
    /\ ~rootExists
    /\ rootExists' = TRUE
    /\ sq' = NoSearch
    /\ touched' = TRUE
    /\ UNCHANGED <<files, dbVars, pc, force, sources, seen_paths, now, existing_sources,
                   stale, stats, opened, dirty, pre, prev, ncalls>>
    /\ UNCHANGED recallVars
    /\ UNCHANGED textVars

Init ==
    /\ rootExists = TRUE
    /\ files = [p \in Paths |-> Absent]
    /\ db = EmptyDb
    /\ connOpen = FALSE
    /\ work = EmptyDb
    /\ pc = "idle"
    /\ force = FALSE
    /\ sources = <<>>
    /\ seen_paths = {}
    /\ now = 0
    /\ existing_sources = <<>>
    /\ stale = <<>>
    /\ stats = ZeroStats
    /\ opened = 0
    /\ dirty = FALSE
    /\ pre = EmptyDb
    /\ prev = [ran |-> FALSE, force |-> FALSE, outcome |-> "idle", touched |-> FALSE]
    /\ touched = FALSE
    /\ ncalls = 0
    /\ sq = NoSearch
    /\ mtimes = [p \in Paths |-> 0]
    /\ INDEX_CACHE = <<>>
    /\ INDEX_SIGNATURES = <<>>
    /\ rq = NoRecall
    /\ arg = <<>>
    /\ ret = NoReturn

Next ==
    \/ \E f \in BOOLEAN : IndexBegin(f)
    \/ IndexFile
    \/ IndexScan
    \/ IndexDelete
    \/ IndexCommit
    \/ StorageError
    \/ \E input \in SearchInputs : Search(input[1], input[2])
    \/ \E p \in Paths : \E bytes \in Contents(p) : WriteFile(p, bytes)
    \/ \E p \in Paths : RemoveFile(p)
    \/ RemoveRoot
    \/ CreateRoot

Spec == Init /\ [][Next]_vars

\* ------------------------------------------------------------------------
\* The query paths over an indexed tree: search_knowledge, recall_knowledge and
\* rebuild_index, with edits of the tree that set modification times
\* ------------------------------------------------------------------------

\* what index_knowledge stores for one file with the given bytes
indexed_file(d, existing, p, bytes, ts) ==
    LET text == read_text(bytes)
        seg == extract_paragraphs(text)
    IN  index_file(d, existing, relative_path(p),
                   IF seg.title = <<>> THEN fallback_title(p) ELSE seg.title,
                   fingerprint_of(text), seg.blocks, ts)

\* the database after index_knowledge on an empty database and the tree
\* docs/x_y.md = DocA, research/n.TXT = DocB
IndexedDb ==
    LET first == indexed_file(EmptyDb, <<>>, PathA, DocA, 1)
    IN  indexed_file(first.db, first.existing, PathB, DocB, 1).db

\* a file is written, created or touched: any bytes, any modification time
SetFile(p, bytes, mtime) ==
    /\ Idle
    /\ rootExists
    /\ <<files[p], mtimes[p]>> # <<bytes, mtime>>
    /\ files' = [files EXCEPT ![p] = bytes]
    /\ mtimes' = [mtimes EXCEPT ![p] = mtime]
    /\ sq' = NoSearch
    /\ rq' = NoRecall
    /\ touched' = TRUE
    /\ UNCHANGED <<rootExists, dbVars, pc, force, sources, seen_paths, now,
                   existing_sources, stale, stats, opened, dirty, pre, prev, ncalls,
                   cacheVars>>
    /\ UNCHANGED textVars

DropFile(p) ==
    /\ Idle
    /\ rootExists
    /\ files[p] # Absent
    /\ files' = [files EXCEPT ![p] = Absent]
    /\ mtimes' = [mtimes EXCEPT ![p] = 0]
    /\ sq' = NoSearch
    /\ rq' = NoRecall
    /\ touched' = TRUE
    /\ UNCHANGED <<rootExists, dbVars, pc, force, sources, seen_paths, now,
                   existing_sources, stale, stats, opened, dirty, pre, prev, ncalls,
                   cacheVars>>
    /\ UNCHANGED textVars

DropRoot ==
    /\ Idle
    /\ rootExists
    /\ rootExists' = FALSE
    /\ files' = [p \in Paths |-> Absent]
    /\ mtimes' = [p \in Paths |-> 0]
    /\ sq' = NoSearch
    /\ rq' = NoRecall
    /\ touched' = TRUE
    /\ UNCHANGED <<dbVars, pc, force, sources, seen_paths, now, existing_sources,
                   stale, stats, opened, dirty, pre, prev, ncalls, cacheVars>>
    /\ UNCHANGED textVars

MakeRoot ==
    /\ Idle
    /\ ~rootExists
    /\ rootExists' = TRUE
    /\ sq' = NoSearch
    /\ rq' = NoRecall
    /\ touched' = TRUE
    /\ UNCHANGED <<files, mtimes, dbVars, pc, force, sources, seen_paths, now,
                   existing_sources, stale, stats, opened, dirty, pre, prev, ncalls,
                   cacheVars>>
    /\ UNCHANGED textVars

\* the state after the first index_knowledge(force=False) of that tree has returned
InitQuery ==
    /\ rootExists = TRUE
    /\ files = [p \in Paths |-> IF p = PathA THEN DocA ELSE DocB]
    /\ db = IndexedDb
    /\ connOpen = FALSE
    /\ work = IndexedDb
    /\ pc = "done"
    /\ force = FALSE
    /\ sources = <<>>
    /\ seen_paths = {}
    /\ now = 1
    /\ existing_sources = <<>>
    /\ stale = <<>>
    /\ stats = [indexed |-> 2, skipped |-> 0, deleted |-> 0, chunks |-> 4]
    /\ opened = 1
    /\ dirty = FALSE
    /\ pre = EmptyDb
    /\ prev = [ran |-> FALSE, force |-> FALSE, outcome |-> "idle", touched |-> FALSE]
    /\ touched = FALSE
    /\ ncalls = 1
    /\ sq = NoSearch
    /\ mtimes = [p \in Paths |-> 0]
    /\ INDEX_CACHE = <<>>
    /\ INDEX_SIGNATURES = <<>>
    /\ rq = NoRecall
    /\ arg = <<>>
    /\ ret = NoReturn

NextQuery ==
    \/ \E input \in SearchInputs : Search(input[1], input[2])
    \/ \E input \in RecallInputs : Recall(input[1], input[2])
    \/ Rebuild
    \/ \E p \in Paths : \E bytes \in QueryContents(p) : \E mtime \in 0..MaxMtime :
          SetFile(p, bytes, mtime)
    \/ \E p \in Paths : DropFile(p)
    \/ DropRoot
    \/ MakeRoot

SpecQuery == InitQuery /\ [][NextQuery]_vars

\* ------------------------------------------------------------------------
\* The four operations together, and recall on two roots
\* ------------------------------------------------------------------------

\* from the state after the first index_knowledge: index_knowledge, search_knowledge,
\* recall_knowledge and rebuild_index for both roots, and edits of docs/x_y.md
NextAll ==
    \/ \E f \in BOOLEAN : IndexBegin(f)
    \/ IndexFile
    \/ IndexScan
    \/ IndexDelete
    \/ IndexCommit
    \/ StorageError
    \/ Search(QueryA, 5)
    \/ \E root \in Roots : RecallAt(root, RecallAB, 0)
    \/ \E root \in Roots : RebuildAt(root)
    \/ \E bytes \in {DocA, DocH} : \E mtime \in 0..MaxMtime : SetFile(PathA, bytes, mtime)
    \/ DropFile(PathA)

SpecAll == InitQuery /\ [][NextAll]_vars

\* ------------------------------------------------------------------------
\* The text functions on their own: extract_paragraphs, _tokenize, shorten and
\* the shaping of search rows into hits, applied to texts built line by line
\* ------------------------------------------------------------------------

\* most lines a built text has
MaxLines == 4

\* largest absolute rank of the rows that are shaped
MaxRank == 2

Fence == <<Backtick, Backtick, Backtick>>

\* the lines texts are built from: blank, whitespace, fence, tagged and indented
\* fence, two level-1 headings, a level-2 heading, heading without text, plain text
LineSet ==
    {<<>>, <<" ">>, Fence, <<" ">> \o Fence \o <<"p", "y">>, <<"#", " ", "T">>,
     <<"#", " ", "S">>, <<"#", "#", " ", "S">>, <<"#">>, <<"a", "b", " ", " ", "c">>}

\* '# Title', '', 'Hello world.', '', 'Bye.'
TitleLines ==
    << <<"#", " ", "T", "i", "t", "l", "e">>,
       <<>>,
       <<"H", "e", "l", "l", "o", " ", "w", "o", "r", "l", "d", ".">>,
       <<>>,
       <<"B", "y", "e", ".">> >>

\* the lines with a line break between them
RECURSIVE TextOf(_)
TextOf(lines) ==
    IF lines = <<>> THEN <<>>
    ELSE IF Len(lines) = 1 THEN lines[1]
    ELSE lines[1] \o <<"\n">> \o TextOf(Tail(lines))

\* n copies of the character c
Filler(c, n) == [i \in 1..n |-> c]

\* a line is added to the text
AddLine(l) ==
    /\ Len(arg) < MaxLines
    /\ arg' = Append(arg, l)
    /\ ret' = NoReturn
    /\ UNCHANGED <<treeVars, dbVars, indexVars, sq, recallVars>>

\* extract_paragraphs(text), and _extract_paragraphs(text) of recall.py
Segment ==
    /\ ret.op # "extract_paragraphs"
    /\ ret' = [op |-> "extract_paragraphs", value |-> extract_paragraphs(TextOf(arg)),
               copy |-> recall_extract_paragraphs(TextOf(arg))]
    /\ UNCHANGED <<arg, treeVars, dbVars, indexVars, sq, recallVars>>

\* kb.py lines 81-83, recall.py lines 155-157: the title a file at path p with
\* this text is given, the one of the text or else the one made of the file name
document_title(p, text) ==
    LET title == extract_paragraphs(text).title
    IN  IF title = <<>> THEN fallback_title(p) ELSE title

\* a file name with both characters the title made of a file name replaces
PathDash == [dir |-> "docs", stem |-> <<"a", "-", "b", "_", "c">>, suffix |-> ".md"]

\* the title of a file at path p that holds the text
Title(p) ==
    /\ Len(arg) <= 2
    /\ ret' = [op |-> "title", path |-> p, value |-> document_title(p, TextOf(arg))]
    /\ UNCHANGED <<arg, treeVars, dbVars, indexVars, sq, recallVars>>

\* the snippet texts and queries that are scored: a token twice in the text, a
\* token that overlaps itself, upper case; a token twice in the query, a query
\* that is a substring, one that is none, one without a hit
ScoreTexts ==
    {<<"A", "b", " ", "a", "b", " ", "c">>, <<"b", "b", "b">>, <<"a", "b", " ", "b">>}

ScoreQueries ==
    {<<"a", "b">>, <<"a", "b", " ", " ", "A", "B">>, <<"b", "b">>,
     <<"c", " ", "a", "b">>, <<"b", "b", " ", "c", "c", "c">>}

\* recall.py lines 81-96: the score recall_knowledge gives a snippet of this text
\* for the query
Score(text, query) ==
    LET normalized_query == normalize_query(query)
        query_tokens == tokenize(normalized_query)
        query_lower == lower(normalized_query)
    IN  /\ arg = <<>>
        /\ ret' = [op |-> "_score_snippet", text |-> text, query |-> query,
                   tokens |-> query_tokens, query_lower |-> query_lower,
                   value |-> score_snippet(text, query_tokens, query_lower)]
        /\ UNCHANGED <<arg, treeVars, dbVars, indexVars, sq, recallVars>>

\* kb.py lines 92 and 112: _remove_source_chunks(conn, source_id), then
\* _insert_chunks(conn, source_id, paragraphs), for the Source of docs/x_y.md in
\* the indexed database and the paragraph list whose texts are the built lines
ReplaceChunks ==
    LET source_id == 1
        paragraphs == [i \in 1..Len(arg) |->
                          [text |-> arg[i], line |-> i, section |-> None]]
        r == insert_chunks(remove_source_chunks(IndexedDb, source_id), source_id,
                           paragraphs)
    IN  /\ Len(arg) <= 3
        /\ ret.op # "_insert_chunks"
        /\ ret' = [op |-> "_insert_chunks", source_id |-> source_id,
                   paragraphs |-> paragraphs, before |-> IndexedDb,
                   db |-> r.db, count |-> r.count]
        /\ UNCHANGED <<arg, treeVars, dbVars, indexVars, sq, recallVars>>

\* _tokenize(text)
Tokenize ==
    /\ ret.op # "_tokenize"
    /\ ret' = [op |-> "_tokenize", value |-> tokenize(TextOf(arg))]
    /\ UNCHANGED <<arg, treeVars, dbVars, indexVars, sq, recallVars>>

\* shorten(text, limit=limit) and _shorten(text, limit=limit) of a text with
\* `lead` characters before the built lines and four after them, and shorten of
\* what shorten returned
Shorten(lead, limit) ==
    LET text == Filler("x", lead) \o TextOf(arg) \o Filler("y", 4)
        short == shorten(text, limit)
    IN  /\ Len(arg) <= 2
        /\ ret' = [op |-> "shorten", text |-> text, limit |-> limit,
                   value |-> short,
                   copy |-> recall_shorten(text, limit),
                   again |-> shorten(short, limit)]
        /\ UNCHANGED <<arg, treeVars, dbVars, indexVars, sq, recallVars>>

ShortenInputs ==
    ({0} \X {0, 2, 3, 4, 6})
    \cup ({0, 270, 274, 276} \X {DEFAULT_SHORTEN_LIMIT})

Ranks == (0 - MaxRank)..MaxRank

\* lines 161-186 of search_knowledge on rows with the given ranks: the rows in
\* ORDER BY order, cut at the limit, shaped into hits
ShapeRows(ranks, limit) ==
    LET rows == {[path |-> relative_path(PathA), title |-> <<"T">>, section |-> None,
                  line |-> i, text |-> <<"a">>, order_index |-> i - 1,
                  chunk_id |-> i, rank |-> ranks[i]] : i \in 1..Len(ranks)}
    IN  /\ arg = <<>>
        /\ \E ordered \in ordered_rows(rows) :
              LET got == apply_limit(ordered, limit)
              IN  ret' = [op |-> "search_hit", rows |-> got,
                          value |-> [i \in 1..Len(got) |-> search_hit(got[i])]]
        /\ UNCHANGED <<arg, treeVars, dbVars, indexVars, sq, recallVars>>

InitText ==
    /\ rootExists = TRUE
    /\ files = [p \in Paths |-> Absent]
    /\ db = EmptyDb
    /\ connOpen = FALSE
    /\ work = EmptyDb
    /\ pc = "idle"
    /\ force = FALSE
    /\ sources = <<>>
    /\ seen_paths = {}
    /\ now = 0
    /\ existing_sources = <<>>
    /\ stale = <<>>
    /\ stats = ZeroStats
    /\ opened = 0
    /\ dirty = FALSE
    /\ pre = EmptyDb
    /\ prev = [ran |-> FALSE, force |-> FALSE, outcome |-> "idle", touched |-> FALSE]
    /\ touched = FALSE
    /\ ncalls = 0
    /\ sq = NoSearch
    /\ mtimes = [p \in Paths |-> 0]
    /\ INDEX_CACHE = <<>>
    /\ INDEX_SIGNATURES = <<>>
    /\ rq = NoRecall
    /\ arg \in {<<>>, TitleLines}
    /\ ret = NoReturn

NextText ==
    \/ \E l \in LineSet : AddLine(l)
    \/ Segment
    \/ \E p \in Paths \cup {PathDash} : Title(p)
    \/ Tokenize
    \/ ReplaceChunks
    \/ \E text \in ScoreTexts : \E query \in ScoreQueries : Score(text, query)
    \/ \E input \in ShortenInputs : Shorten(input[1], input[2])
    \/ \E n \in 1..3 : \E ranks \in [1..n -> Ranks] : \E limit \in {0, 2} :
          ShapeRows(ranks, limit)

SpecText == InitText /\ [][NextText]_vars

\* ------------------------------------------------------------------------
\* Properties of index_knowledge
\* ------------------------------------------------------------------------

\* what a file would be indexed as in the tree as it is now
FileText(p) == read_text(FileBytes(p))
FileFingerprint(p) == fingerprint_of(FileText(p))
FileParagraphs(p) == extract_paragraphs(FileText(p)).blocks
FileTitle(p) ==
    LET t == extract_paragraphs(FileText(p)).title
    IN  IF t = <<>> THEN fallback_title(p) ELSE t

\* the last index_knowledge call has returned and the tree is as that call saw it
Returned == pc = "done" /\ ~touched

\* a call is between its connect() and its return or raise
Running == pc \in {"files", "deletes"}

SourcesAt(d, rel) == {s \in d.kb_sources : s.path = rel}
ChunksOf(d, ids) == {c \in d.kb_chunks : c.source_id \in ids}
EntriesOf(d, chunks) == {f \in d.kb_chunks_fts : f.rowid \in {c.id : c \in chunks}}

\* everything the database holds for one path
Stored(d, rel) ==
    LET rows == SourcesAt(d, rel)
        chunks == ChunksOf(d, {s.id : s \in rows})
    IN  [sources |-> rows, chunks |-> chunks, entries |-> EntriesOf(d, chunks)]

\* the eligible files whose stored fingerprint equals the fresh one
Unchanged ==
    {p \in EligibleFiles :
        \E s \in pre.kb_sources :
            s.path = relative_path(p) /\ s.fingerprint = FileFingerprint(p)}

\* the eligible files that have a Source with another fingerprint
Changed ==
    {p \in EligibleFiles :
        \E s \in pre.kb_sources :
            s.path = relative_path(p) /\ s.fingerprint # FileFingerprint(p)}

\* the Sources whose file is no longer among the eligible files
Gone ==
    {s \in pre.kb_sources : s.path \notin {relative_path(p) : p \in EligibleFiles}}

\* C1: a second index_knowledge(force=False) directly after a completed
\* index_knowledge(force=False), with no edit of the tree in between, returns
\* indexed = 0, deleted = 0, chunks = 0 and skipped = the number of eligible files.
C1_SecondRunSkipsAll ==
    (/\ Returned
     /\ ~force
     /\ prev.ran /\ prev.outcome = "done" /\ ~prev.force /\ ~prev.touched)
    => stats = [indexed |-> 0, skipped |-> Cardinality(EligibleFiles),
                deleted |-> 0, chunks |-> 0]

C1_Witness ==
    /\ Returned
    /\ ~force
    /\ prev.ran /\ prev.outcome = "done" /\ ~prev.force /\ ~prev.touched
    /\ stats.skipped = 2
    /\ db.kb_chunks # {}

\* C2: with force = False a file whose fresh fingerprint equals the stored one is
\* counted as skipped, and its Source row, Chunk rows and full-text entries are,
\* throughout the call and after it, exactly what they were before the call.
C2_SkippedFileUntouched ==
    /\ (Returned /\ ~force) =>
          /\ stats.skipped = Cardinality(Unchanged)
          /\ \A p \in Unchanged :
                Stored(db, relative_path(p)) = Stored(pre, relative_path(p))
    /\ (Running /\ ~force) =>
          \A p \in Unchanged :
             Stored(work, relative_path(p)) = Stored(pre, relative_path(p))

C2_Witness ==
    /\ Returned
    /\ ~force
    /\ stats.skipped = 1
    /\ stats.indexed = 1
    /\ \E p \in Unchanged : Stored(db, relative_path(p)).chunks # {}
    /\ db # pre

\* C3: when the file of a Source is no longer in the tree and the root exists, the
\* next index_knowledge counts it as deleted, and afterwards no Source row, Chunk
\* row or full-text entry of it exists and no query returns a row of its path.
C3_RemovedFileIsDeleted ==
    (Returned /\ rootExists) =>
        /\ stats.deleted = Cardinality(Gone)
        /\ \A s \in Gone :
              /\ Stored(db, s.path) = [sources |-> {}, chunks |-> {}, entries |-> {}]
              /\ \A t \in db.kb_sources : t.id # s.id
              /\ ChunksOf(db, {s.id}) = {}
              /\ EntriesOf(db, ChunksOf(pre, {s.id})) = {}
              /\ \A input \in SearchInputs :
                    \A r \in match_rows(db, normalize_query(input[1])) : r.path # s.path

C3_Witness ==
    /\ Returned
    /\ rootExists
    /\ stats.deleted = 1
    /\ \E s \in Gone : ChunksOf(pre, {s.id}) # {}
    /\ db.kb_sources # {}

\* the rows _insert_chunks writes for a paragraph list, without their ids
ParagraphRows(paragraphs) ==
    {[order_index |-> i - 1, section |-> paragraphs[i].section,
      line |-> paragraphs[i].line, text |-> paragraphs[i].text] :
        i \in 1..Len(paragraphs)}

ChunkRows(chunks) ==
    {[order_index |-> c.order_index, section |-> c.section, line |-> c.line,
      text |-> c.text] : c \in chunks}

\* C4: with force = False a file whose fresh fingerprint differs from the stored one
\* is counted as indexed, not skipped; afterwards the Chunks and full-text entries
\* of its Source are exactly the paragraphs of the new content, none of the old
\* Chunks is left, and every new paragraph is returned for a query of its words.
C4_ChangedFileIsReplaced ==
    (Returned /\ ~force) =>
        /\ stats.indexed = Cardinality(Changed)
                           + Cardinality({p \in EligibleFiles :
                                            SourcesAt(pre, relative_path(p)) = {}})
        /\ stats.skipped = Cardinality(EligibleFiles \ Changed) - stats.indexed
                           + Cardinality(Changed)
        /\ \A p \in Changed :
              LET now_stored == Stored(db, relative_path(p))
                  old == Stored(pre, relative_path(p))
              IN  /\ ChunkRows(now_stored.chunks) = ParagraphRows(FileParagraphs(p))
                  /\ Cardinality(now_stored.chunks) = Len(FileParagraphs(p))
                  /\ {f.text : f \in now_stored.entries}
                        = {b.text : b \in ParagraphRows(FileParagraphs(p))}
                  /\ Cardinality(now_stored.entries) = Len(FileParagraphs(p))
                  /\ now_stored.chunks \cap old.chunks = {}
                  /\ {c.id : c \in now_stored.chunks} \cap {c.id : c \in old.chunks} = {}
                  /\ now_stored.entries \cap old.entries = {}
                  /\ \A c \in now_stored.chunks :
                        \E r \in match_rows(db, fts_tokens(c.text)[1]) :
                           r.chunk_id = c.id

C4_Witness ==
    /\ Returned
    /\ ~force
    /\ \E p \in Changed :
          /\ Stored(pre, relative_path(p)).chunks # {}
          /\ FileParagraphs(p) # <<>>
          /\ ChunkRows(Stored(pre, relative_path(p)).chunks)
                # ParagraphRows(FileParagraphs(p))

\* C5: index_knowledge is all or nothing.  While a call runs, whatever it has
\* inserted, updated or deleted, the committed database is the one from before the
\* call; when a storage error ends the call the connection is closed and the
\* committed database is still that one; the committed database changes only in
\* the step that commits and returns.
C5_AllOrNothing ==
    /\ Running => db = pre
    /\ pc = "raised" => (db = pre /\ ~connOpen /\ work = db)
    /\ pc = "done" => (~connOpen /\ work = db)

C5_Witness ==
    /\ pc = "raised"
    /\ dirty
    /\ db = pre
    /\ db.kb_sources # {}

\* C6: in every committed state every Chunk belongs to an existing Source, every
\* full-text entry belongs to an existing Chunk, and every Chunk has exactly one
\* full-text entry.
C6_NoOrphans ==
    /\ \A c \in db.kb_chunks : \E s \in db.kb_sources : s.id = c.source_id
    /\ \A f \in db.kb_chunks_fts : \E c \in db.kb_chunks : c.id = f.rowid
    /\ \A c \in db.kb_chunks :
          Cardinality({f \in db.kb_chunks_fts : f.rowid = c.id}) = 1
    /\ \A c1, c2 \in db.kb_chunks : c1.id = c2.id => c1 = c2

C6_Witness ==
    /\ pc = "done"
    /\ stats.deleted = 1
    /\ stats.indexed = 1
    /\ pre.kb_chunks # {}
    /\ db.kb_chunks # {}
    /\ \E c \in pre.kb_chunks : c \notin db.kb_chunks

\* C7: no two Source rows share a path or an id; a path that had a Source before a
\* call and is still in the tree has the same Source id after it, and when the call
\* re-indexed it the row carries the new title, fingerprint and timestamp.
C7_OneSourcePerPath ==
    /\ \A s, t \in db.kb_sources : (s.path = t.path \/ s.id = t.id) => s = t
    /\ \A s, t \in work.kb_sources : (s.path = t.path \/ s.id = t.id) => s = t
    /\ Returned =>
          \A p \in EligibleFiles :
             \A s \in SourcesAt(pre, relative_path(p)) :
                /\ \E t \in SourcesAt(db, relative_path(p)) : t.id = s.id
                /\ (force \/ p \in Changed) =>
                      [id |-> s.id, path |-> s.path, title |-> FileTitle(p),
                       fingerprint |-> FileFingerprint(p), last_indexed_ts |-> now]
                         \in db.kb_sources

C7_Witness ==
    /\ Returned
    /\ \E p \in Changed :
          \E s \in SourcesAt(pre, relative_path(p)) :
             /\ s.title # FileTitle(p)
             /\ s.last_indexed_ts # now
             /\ \E t \in db.kb_sources : t.id = s.id /\ t.title = FileTitle(p)

\* C8: index_knowledge on a root that does not exist returns without raising, with
\* all four counts 0, opens no connection and leaves the database as it was.
C8_MissingRoot ==
    (~Idle \/ pc \in {"done", "raised"}) /\ ~touched /\ ~rootExists /\ ncalls > 0
    => /\ pc = "done"
       /\ stats = ZeroStats
       /\ opened = 0
       /\ ~connOpen
       /\ db = pre

C8_Witness ==
    /\ pc = "done"
    /\ ~touched
    /\ ~rootExists
    /\ stats = ZeroStats
    /\ opened = 0
    /\ db.kb_chunks # {}

\* the ORDER BY of the query, written out: rank, then path, then order_index
Precedes(a, b) ==
    \/ a.rank < b.rank
    \/ a.rank = b.rank /\ PathKey(a.path) < PathKey(b.path)
    \/ a.rank = b.rank /\ PathKey(a.path) = PathKey(b.path)
       /\ a.order_index < b.order_index

\* C10: search_knowledge returns matching rows in strictly increasing order of
\* (rank, path, order_index), so the order is fixed by the database and the query;
\* with limit > 0 it returns the first `limit` rows of that order (all when there
\* are fewer), with limit <= 0 all of them; the hits are the rows in that order.
C10_SearchOrder ==
    sq.kind = "hits" =>
        LET all == match_rows(db, normalize_query(sq.query))
            n == Len(sq.rows)
            got == {sq.rows[i] : i \in 1..n}
        IN  /\ got \subseteq all
            /\ \A i, j \in 1..n : i < j => Precedes(sq.rows[i], sq.rows[j])
            /\ \A r \in all \ got : \A i \in 1..n : Precedes(sq.rows[i], r)
            /\ n = IF sq.limit > 0 /\ sq.limit < Cardinality(all)
                   THEN sq.limit ELSE Cardinality(all)
            /\ Len(sq.hits) = n
            /\ \A i \in 1..n :
                  /\ sq.hits[i].path = sq.rows[i].path
                  /\ sq.hits[i].line = sq.rows[i].line
                  /\ sq.hits[i].snippet = sq.rows[i].text

\* three matching rows, a tie of rank inside one path, and a limit that cuts
C10_Witness ==
    /\ sq.kind = "hits"
    /\ sq.limit = 2
    /\ Len(sq.rows) = 2
    /\ Cardinality(match_rows(db, normalize_query(sq.query))) = 3
    /\ sq.rows[1].rank < sq.rows[2].rank
    /\ PathKey(sq.rows[1].path) > PathKey(sq.rows[2].path)
    /\ \E r \in match_rows(db, normalize_query(sq.query)) :
          /\ r.rank = sq.rows[2].rank
          /\ r.path = sq.rows[2].path
          /\ r.order_index > sq.rows[2].order_index

\* a tie of rank across two paths, and no limit in force
C10_WitnessPaths ==
    /\ sq.kind = "hits"
    /\ Len(sq.rows) >= 2
    /\ sq.rows[1].rank = sq.rows[2].rank
    /\ PathKey(sq.rows[1].path) < PathKey(sq.rows[2].path)

\* ------------------------------------------------------------------------
\* Properties of the query paths
\* ------------------------------------------------------------------------

\* a query that is empty or made of whitespace only
IsBlank(query) == \A i \in 1..Len(query) : query[i] \in {" ", "\t", "\n"}

\* C9: search_knowledge and recall_knowledge called with an empty or
\* whitespace-only query raise ValueError at once: search_knowledge has opened
\* no connection, and recall_knowledge has neither loaded nor rebuilt the
\* snippet cache, whose entries and signatures are what they were before the call.
C9_BlankQueryRejected ==
    /\ (sq.kind # "none" /\ IsBlank(sq.query)) =>
          (sq.kind = "ValueError" /\ sq.opened = 0)
    /\ (rq.kind \in {"ValueError", "results"} /\ IsBlank(rq.query)) =>
          /\ rq.kind = "ValueError"
          /\ ~rq.loaded
          /\ ~rq.rebuilt
          /\ cacheVars = rq.before

\* a whitespace-only recall was rejected while the cache held snippets that the
\* tree no longer matches, so that a load would have rebuilt it
C9_Witness ==
    /\ rq.kind = "ValueError"
    /\ rq.query = QueryBlank
    /\ RootName \in DOMAIN INDEX_CACHE
    /\ INDEX_CACHE[RootName] # <<>>
    /\ ~cache_current(RootName)

\* a whitespace-only search was rejected over a database that holds chunks
C9_WitnessSearch ==
    /\ sq.kind = "ValueError"
    /\ sq.query = QueryBlank
    /\ db.kb_chunks # {}

\* ------------------------------------------------------------------------
\* Properties of the text functions and of the shaping of hits
\* ------------------------------------------------------------------------

\* C11: every hit's score is 1 / (1 + max(r, 0)) for the rank r of its row, so it
\* is greater than 0 and at most 1, and a hit never has a lower score than a hit
\* that follows it in the result.
C11_ScoreFromRank ==
    ret.op = "search_hit" =>
        /\ Len(ret.value) = Len(ret.rows)
        /\ \A i \in 1..Len(ret.value) :
              LET r == ret.rows[i].rank
                  score == ret.value[i].score
              IN  /\ score.num = 1
                  /\ score.den = 1 + (IF r > 0 THEN r ELSE 0)
                  /\ score.den > 0
                  /\ 0 < score.num * score.den
                  /\ score.num <= score.den
        /\ \A i, j \in 1..Len(ret.value) :
              i < j => ret.value[i].score.num * ret.value[j].score.den
                         >= ret.value[j].score.num * ret.value[i].score.den

\* three hits were returned: one of a negative rank, whose score is 1, and two of
\* different positive ranks, whose scores are below 1 and differ
C11_Witness ==
    /\ ret.op = "search_hit"
    /\ Len(ret.value) = 3
    /\ ret.rows[1].rank < 0
    /\ ret.rows[2].rank > 0
    /\ ret.rows[3].rank > ret.rows[2].rank
    /\ ret.value[1].score.den = 1
    /\ ret.value[2].score.den < ret.value[3].score.den

TitleText == <<"T", "i", "t", "l", "e">>
HelloText == <<"H", "e", "l", "l", "o", " ", "w", "o", "r", "l", "d", ".">>
ByeText == <<"B", "y", "e", ".">>

\* C12 as stated: the five lines '# Title', '', 'Hello world.', '', 'Bye.' give
\* title 'Title' and the paragraphs 'Hello world.' at line 3 and 'Bye.' at line 5,
\* both with section None.
C12_TitleLeavesSectionNone ==
    (ret.op = "extract_paragraphs" /\ arg = TitleLines) =>
        /\ ret.value.title = TitleText
        /\ ret.value.blocks =
              << [text |-> HelloText, line |-> 3, section |-> None],
                 [text |-> ByeText, line |-> 5, section |-> None] >>

\* C12, amended: the five lines '# Title', '', 'Hello world.', '', 'Bye.' give
\* title 'Title' and the paragraphs 'Hello world.' at line 3 and 'Bye.' at line 5,
\* both with section 'Title': the level-1 heading that sets the title also sets
\* the section of the paragraphs that follow it.
C12_TitleSetsSection ==
    (ret.op = "extract_paragraphs" /\ arg = TitleLines) =>
        /\ ret.value.title = TitleText
        /\ ret.value.blocks =
              << [text |-> HelloText, line |-> 3, section |-> TitleText],
                 [text |-> ByeText, line |-> 5, section |-> TitleText] >>

\* extract_paragraphs has returned for the five lines
C12_Witness ==
    /\ arg = TitleLines
    /\ ret.op = "extract_paragraphs"
    /\ Len(ret.value.blocks) = 2

\* a line that opens or closes a fenced block
IsFenceLine(l) == startswith(strip(l), Fence)

\* line i lies between an opening fence line and its closing fence line, or the end
InFence(lines, i) ==
    /\ ~IsFenceLine(lines[i])
    /\ Cardinality({j \in 1..(i - 1) : IsFenceLine(lines[j])}) % 2 = 1

\* the lines with every line inside a fenced block emptied
Unfenced(lines) == [i \in 1..Len(lines) |-> IF InFence(lines, i) THEN <<>> ELSE lines[i]]

\* C13: no line between an opening fence line and its closing fence line, or the
\* end of the text, contributes to what extract_paragraphs returns: title,
\* paragraphs, their sections and lines are what they are with those lines empty,
\* and when all plain text is fenced no paragraph is returned.
C13_FencedLinesSkipped ==
    ret.op = "extract_paragraphs" =>
        /\ ret.value = extract_paragraphs(TextOf(Unfenced(arg)))
        /\ (\A i \in 1..Len(arg) :
               InFence(arg, i) \/ IsFenceLine(arg[i]) \/ strip(arg[i]) = <<>>
               \/ startswith(strip(arg[i]), <<"#">>))
           => ret.value.blocks = <<>>

\* a level-1 heading and a text line stood inside a closed fence, a text line
\* after it: the title is empty and the one paragraph has no section
C13_Witness ==
    /\ ret.op = "extract_paragraphs"
    /\ Len(arg) = 4
    /\ IsFenceLine(arg[1])
    /\ arg[2] = <<"#", " ", "T">>
    /\ IsFenceLine(arg[3])
    /\ arg[4] = <<"a", "b", " ", " ", "c">>
    /\ ret.value.title = <<>>
    /\ ret.value.blocks = << [text |-> <<"a", "b", " ", "c">>, line |-> 4,
                              section |-> None] >>

\* a fence was opened and never closed, with a heading and text after it
C13_WitnessOpen ==
    /\ ret.op = "extract_paragraphs"
    /\ Len(arg) = 3
    /\ IsFenceLine(arg[1])
    /\ arg[2] = <<"#", "#", " ", "S">>
    /\ arg[3] = <<"a", "b", " ", " ", "c">>
    /\ ret.value = [title |-> <<>>, blocks |-> <<>>]

\* ------------------------------------------------------------------------
\* Properties of the recall cache
\* ------------------------------------------------------------------------

\* the snippets of the files now on disk, as (rel_path, line, title, text)
DiskSnippets ==
    UNION {{[rel_path |-> relative_path(p), line |-> FileParagraphs(p)[i].line,
             title |-> FileTitle(p), text |-> FileParagraphs(p)[i].text] :
                i \in 1..Len(FileParagraphs(p))} : p \in EligibleFiles}

\* the signature kept for the root when the call began differs from the files now
\* eligible and their modification times, or none was kept
SignatureStale(signatures) ==
    \/ RootName \notin DOMAIN signatures
    \/ DOMAIN signatures[RootName] # EligibleFiles
    \/ \E p \in EligibleFiles \cap DOMAIN signatures[RootName] :
          signatures[RootName][p] # mtimes[p]

\* C14: when recall_knowledge is called with a valid query and the eligible files
\* or their modification times differ from the signature kept at the last build,
\* the snippet set is rebuilt from disk before scoring, the cache entry and the
\* signature of the root are the rebuilt ones, and every result is of a snippet of
\* the files as they are now.
C14_StaleCacheRebuilt ==
    (rq.kind = "results" /\ SignatureStale(rq.before[2])) =>
        /\ rq.rebuilt
        /\ rq.snippets \in build_index
        /\ INDEX_CACHE[RootName] = rq.snippets
        /\ INDEX_SIGNATURES[RootName] = build_signature(rq.snippets)
        /\ {[rel_path |-> rq.snippets[i].rel_path, line |-> rq.snippets[i].line,
             title |-> rq.snippets[i].title, text |-> rq.snippets[i].text] :
                i \in 1..Len(rq.snippets)} = DiskSnippets
        /\ \A i \in 1..Len(rq.results) :
              \E d \in DiskSnippets :
                 /\ d.rel_path = rq.results[i].path
                 /\ d.line = rq.results[i].line
                 /\ d.title = rq.results[i].title

\* a file that the kept signature names was touched and its content changed: the
\* call rebuilt, replaced a non-empty cache entry by a different one and returned
\* results
C14_Witness ==
    /\ rq.kind = "results"
    /\ rq.rebuilt
    /\ rq.results # <<>>
    /\ RootName \in DOMAIN rq.before[2]
    /\ DOMAIN rq.before[2][RootName] = EligibleFiles
    /\ \E p \in EligibleFiles : rq.before[2][RootName][p] # mtimes[p]
    /\ rq.before[1][RootName] # <<>>
    /\ rq.before[1][RootName] # INDEX_CACHE[RootName]

\* C15: rebuild_index rebuilds the snippets of the root from disk, whether or not
\* an entry was cached and whether or not its signature was current, replaces the
\* cached snippets and signature of the root by the rebuilt ones and returns the
\* number of snippets now cached for the root.
C15_RebuildAlways ==
    rq.kind = "count" =>
        /\ RootName \in DOMAIN INDEX_CACHE
        /\ RootName \in DOMAIN INDEX_SIGNATURES
        /\ INDEX_CACHE[RootName] \in build_index
        /\ {[rel_path |-> INDEX_CACHE[RootName][i].rel_path,
             line |-> INDEX_CACHE[RootName][i].line,
             title |-> INDEX_CACHE[RootName][i].title,
             text |-> INDEX_CACHE[RootName][i].text] :
                i \in 1..Len(INDEX_CACHE[RootName])} = DiskSnippets
        /\ INDEX_SIGNATURES[RootName] = build_signature(INDEX_CACHE[RootName])
        /\ rq.count = Len(INDEX_CACHE[RootName])

\* rebuild_index ran while the cached entry passed for current: a file was
\* rewritten with its modification time unchanged, and the entry was replaced
C15_Witness ==
    /\ rq.kind = "count"
    /\ rq.count > 0
    /\ ~SignatureStale(rq.before[2])
    /\ rq.before[1][RootName] # INDEX_CACHE[RootName]

\* rebuild_index ran with nothing cached
C15_WitnessCold ==
    /\ rq.kind = "count"
    /\ rq.count > 0
    /\ rq.before = << <<>>, <<>> >>

\* ------------------------------------------------------------------------
\* Properties of the recall scoring and ranking
\* ------------------------------------------------------------------------

\* the query of the last recall, normalised and lower-cased, and its tokens
RecallQuery == lower(normalize_query(rq.query))
RecallTokens == tokenize(normalize_query(rq.query))

\* no token of the query occurs in the snippet and the query is no substring of it
NoDirectHit(snippet) ==
    /\ \A i \in 1..Len(RecallTokens) : ~contains(lower(snippet.text), RecallTokens[i])
    /\ ~contains(lower(snippet.text), RecallQuery)

\* the similarity ratio of the query and the snippet
Ratio(snippet) == quick_ratio(RecallQuery, lower(snippet.text))

\* the results that are of the snippet
ResultsOf(snippet) ==
    {i \in 1..Len(rq.results) :
        /\ rq.results[i].path = snippet.rel_path
        /\ rq.results[i].line = snippet.line}

\* the limit cut nothing off
Uncut == rq.limit <= 0 \/ Len(rq.results) < rq.limit

\* C16: for a snippet in which no query token occurs and of which the query is no
\* substring, the score is the similarity ratio when the ratio is strictly greater
\* than 0.6 and 0 otherwise; a snippet of score 0 is never returned, one of ratio
\* above 0.6 is returned with the ratio as its score.
C16_FuzzyThreshold ==
    rq.kind = "results" =>
        /\ \A i \in 1..Len(rq.results) : rq.results[i].score.num > 0
        /\ \A k \in 1..Len(rq.snippets) :
              LET snippet == rq.snippets[k]
                  ratio == Ratio(snippet)
                  score == score_snippet(snippet.text, RecallTokens, RecallQuery)
              IN  NoDirectHit(snippet) =>
                     IF 10 * ratio.num > 6 * ratio.den
                     THEN /\ score = ratio
                          /\ Uncut => ResultsOf(snippet) # {}
                          /\ \A i \in ResultsOf(snippet) : rq.results[i].score = ratio
                     ELSE /\ score.num = 0
                          /\ ResultsOf(snippet) = {}

\* one snippet at ratio exactly 0.6 was left out and one at ratio 2/3 was
\* returned with score 2/3
C16_Witness ==
    /\ rq.kind = "results"
    /\ rq.query = RecallBBC
    /\ \E k \in 1..Len(rq.snippets) :
          /\ NoDirectHit(rq.snippets[k])
          /\ 10 * Ratio(rq.snippets[k]).num = 6 * Ratio(rq.snippets[k]).den
          /\ ResultsOf(rq.snippets[k]) = {}
    /\ \E k \in 1..Len(rq.snippets) :
          /\ NoDirectHit(rq.snippets[k])
          /\ 3 * Ratio(rq.snippets[k]).num = 2 * Ratio(rq.snippets[k]).den
          /\ \E i \in ResultsOf(rq.snippets[k]) :
                3 * rq.results[i].score.num = 2 * rq.results[i].score.den

\* a snippet at ratio 0.5 was left out
C16_WitnessHalf ==
    /\ rq.kind = "results"
    /\ rq.query = RecallBBCC
    /\ \E k \in 1..Len(rq.snippets) :
          /\ NoDirectHit(rq.snippets[k])
          /\ 2 * Ratio(rq.snippets[k]).num = Ratio(rq.snippets[k]).den
          /\ ResultsOf(rq.snippets[k]) = {}

\* the snippets of the last recall whose score is above 0, as (path, line, score)
Positive ==
    {[path |-> rq.snippets[k].rel_path, line |-> rq.snippets[k].line,
      score |-> score_snippet(rq.snippets[k].text, RecallTokens, RecallQuery)] :
        k \in {j \in 1..Len(rq.snippets) :
                 score_snippet(rq.snippets[j].text, RecallTokens, RecallQuery).num > 0}}

\* a comes before b: higher score, or the same score and the lower path, or the
\* same score and path and the lower line
RecallPrecedes(a, b) ==
    \/ a.score.num * b.score.den > b.score.num * a.score.den
    \/ /\ a.score.num * b.score.den = b.score.num * a.score.den
       /\ PathKey(a.path) < PathKey(b.path)
    \/ /\ a.score.num * b.score.den = b.score.num * a.score.den
       /\ a.path = b.path
       /\ a.line < b.line

\* C17: recall_knowledge returns the snippets of score above 0 by score
\* descending, then path ascending, then line ascending: the first `limit` of that
\* order when limit > 0 (all when there are fewer), all of them when limit <= 0.
C17_RecallOrder ==
    rq.kind = "results" =>
        LET n == Len(rq.results)
            got == {[path |-> rq.results[i].path, line |-> rq.results[i].line,
                     score |-> rq.results[i].score] : i \in 1..n}
        IN  /\ got \subseteq Positive
            /\ Cardinality(got) = n
            /\ \A i, j \in 1..n :
                  i < j => RecallPrecedes(rq.results[i], rq.results[j])
            /\ \A a \in got : \A b \in Positive \ got : RecallPrecedes(a, b)
            /\ n = IF rq.limit > 0 /\ rq.limit < Cardinality(Positive)
                   THEN rq.limit ELSE Cardinality(Positive)

\* three results with no limit: the best first, then two of equal score from one
\* file in the order of their lines
C17_Witness ==
    /\ rq.kind = "results"
    /\ rq.limit <= 0
    /\ Len(rq.results) = 3
    /\ ScoreLess(rq.results[2].score, rq.results[1].score)
    /\ rq.results[2].score.num * rq.results[3].score.den
          = rq.results[3].score.num * rq.results[2].score.den
    /\ rq.results[2].path = rq.results[3].path
    /\ rq.results[2].line < rq.results[3].line

\* two results of equal score from two files, in the order of their paths
C17_WitnessPaths ==
    /\ rq.kind = "results"
    /\ Len(rq.results) >= 2
    /\ rq.results[1].score = rq.results[2].score
    /\ PathKey(rq.results[1].path) < PathKey(rq.results[2].path)

\* the limit cut the list: two of three returned
C17_WitnessCut ==
    /\ rq.kind = "results"
    /\ rq.limit = 2
    /\ Len(rq.results) = 2
    /\ Cardinality(Positive) = 3

\* ------------------------------------------------------------------------
\* Properties of shorten
\* ------------------------------------------------------------------------

\* the first n characters of the text, none when n is not positive
FirstChars(t, n) == IF n <= 0 THEN <<>> ELSE SubSeq(t, 1, IF n < Len(t) THEN n ELSE Len(t))

\* what the claim gives for shorten(text, limit)
ShortenAsStated(t, limit) ==
    IF Len(t) <= limit THEN t
    ELSE rstrip(FirstChars(t, limit - 3)) \o <<".", ".", ".">>

\* C18: shorten(text, limit) is the text when len(text) <= limit and otherwise the
\* first limit - 3 characters, right-trimmed, followed by '...'; with the default
\* limit 280 the result has at most 280 characters and shortening it again changes
\* nothing; _shorten of recall.py returns the same.
C18_ShortenAsStated ==
    ret.op = "shorten" =>
        /\ ret.value = ShortenAsStated(ret.text, ret.limit)
        /\ ret.copy = ret.value
        /\ ret.limit = DEFAULT_SHORTEN_LIMIT =>
              (Len(ret.value) <= DEFAULT_SHORTEN_LIMIT /\ ret.again = ret.value)

\* C18 for a limit of at least 3, where limit - 3 is no negative index: the same
\* statement, and the result then has at most limit characters.
C18_ShortenFromThree ==
    (ret.op = "shorten" /\ ret.limit >= 3) =>
        /\ ret.value = ShortenAsStated(ret.text, ret.limit)
        /\ ret.copy = ret.value
        /\ Len(ret.value) <= ret.limit
        /\ ret.again = ret.value

\* a text longer than 280 characters was cut where whitespace stood before the cut
C18_WitnessDefault ==
    /\ ret.op = "shorten"
    /\ ret.limit = DEFAULT_SHORTEN_LIMIT
    /\ Len(ret.text) > DEFAULT_SHORTEN_LIMIT
    /\ Len(ret.value) < DEFAULT_SHORTEN_LIMIT

\* ------------------------------------------------------------------------
\* Properties of the storage connections
\* ------------------------------------------------------------------------

\* C19: no call of index_knowledge or search_knowledge leaves a connection open:
\* whenever no call is running, after a return, an invalid query, a storage error
\* in the index loops or an error of the query, no connection is open; and a
\* connection is open only between the connect() of index_knowledge and its end.
C19_ConnectionsClosed ==
    /\ Idle => ~connOpen
    /\ connOpen => (Running /\ opened = 1)
    /\ sq.kind = "ValueError" => sq.opened = 0
    /\ sq.kind \in {"OperationalError", "hits"} => (sq.opened = 1 /\ ~connOpen)

\* index_knowledge raised a storage error after it had changed rows, and its
\* connection is closed
C19_Witness ==
    /\ pc = "raised"
    /\ opened = 1
    /\ dirty
    /\ ~connOpen

\* search_knowledge raised from the query, and its connection is closed
C19_WitnessQueryError ==
    /\ sq.kind = "OperationalError"
    /\ sq.opened = 1
    /\ ~connOpen

\* ------------------------------------------------------------------------
\* Properties of the text functions on input without content
\* ------------------------------------------------------------------------

\* every line is blank, a heading, a fence line or inside a fenced block
NoParagraphText(lines) ==
    \A i \in 1..Len(lines) :
       \/ strip(lines[i]) = <<>>
       \/ startswith(strip(lines[i]), <<"#">>)
       \/ IsFenceLine(lines[i])
       \/ InFence(lines, i)

\* the text has no two letters or digits next to each other
NoLongRun(t) == \A i \in 1..(Len(t) - 1) : ~(t[i] \in Alnum /\ t[i + 1] \in Alnum)

\* C20: extract_paragraphs and _tokenize return a value for every text, a title
\* and a list of paragraphs, respectively a list of tokens; a text that is empty
\* or has only blank lines, headings and fenced lines gives no paragraph, a text
\* with no run of letters and digits longer than one character gives no token.
C20_DegradeToEmpty ==
    /\ ret.op = "extract_paragraphs" =>
          /\ DOMAIN ret.value = {"title", "blocks"}
          /\ ret.value.title # None
          /\ \A i \in 1..Len(ret.value.blocks) : ret.value.blocks[i].text # <<>>
          /\ NoParagraphText(arg) => ret.value.blocks = <<>>
    /\ ret.op = "_tokenize" =>
          /\ \A i \in 1..Len(ret.value) : Len(ret.value[i]) > 1
          /\ NoLongRun(TextOf(arg)) => ret.value = <<>>

\* a heading, a fence and a text line inside the fence that is never closed:
\* extract_paragraphs returned no paragraph
C20_Witness ==
    /\ ret.op = "extract_paragraphs"
    /\ arg = << <<"#", "#", " ", "S">>, Fence, <<"a", "b", " ", " ", "c">> >>
    /\ ret.value.blocks = <<>>

\* two headings whose words have one letter: _tokenize returned no token
C20_WitnessTokens ==
    /\ ret.op = "_tokenize"
    /\ arg = << <<"#", " ", "T">>, <<"#", "#", " ", "S">> >>
    /\ ret.value = <<>>

\* the empty text
C20_WitnessEmpty ==
    /\ ret.op = "extract_paragraphs"
    /\ arg = <<>>
    /\ ret.value = [title |-> <<>>, blocks |-> <<>>]

\* ------------------------------------------------------------------------
\* The counts index_knowledge returns, and the Sources it leaves
\* ------------------------------------------------------------------------

\* the eligible files the call counted as indexed: all of them with force, else
\* those without a Source of the same fingerprint
Indexed == IF force THEN EligibleFiles ELSE EligibleFiles \ Unchanged

\* the Chunk rows the call inserted: AUTOINCREMENT ids above those of before
InsertedChunks == {c \in db.kb_chunks : c.id > pre.seq_chunks}

\* the Chunks stored for the Sources of a set of files
ChunksOfFiles(d, ps) ==
    ChunksOf(d, {s.id : s \in {t \in d.kb_sources :
                                  t.path \in {relative_path(p) : p \in ps}}})

SourcePaths(d) == {s.path : s \in d.kb_sources}

\* C21: every completed index_knowledge call on an existing root returns counts
\* with indexed + skipped = the number of eligible files, deleted = the number of
\* Sources of before the call whose path was not found, and chunks = the number of
\* Chunk rows the call inserted = the number of Chunks stored afterwards for the
\* Sources counted as indexed.
C21_CountsAccount ==
    (Returned /\ rootExists) =>
        /\ stats.indexed + stats.skipped = Cardinality(EligibleFiles)
        /\ stats.indexed = Cardinality(Indexed)
        /\ stats.deleted = Cardinality(Gone)
        /\ stats.chunks = Cardinality(InsertedChunks)
        /\ stats.chunks = Cardinality(ChunksOfFiles(db, Indexed))

\* a call that skipped one file and replaced the chunks of a changed one
C21_Witness ==
    /\ Returned
    /\ rootExists
    /\ stats.indexed = 1
    /\ stats.skipped = 1
    /\ stats.chunks > 0
    /\ Changed # {}
    /\ \E p \in Changed : ChunksOfFiles(pre, {p}) # {}

\* a call that deleted a Source and indexed a new file
C21_WitnessDeleted ==
    /\ Returned
    /\ rootExists
    /\ stats.deleted = 1
    /\ stats.indexed = 1
    /\ stats.chunks > 0

\* C22 as stated: after every index_knowledge call that returns, the persisted
\* Source paths are the relative paths of the eligible files of the tree.
C22_SourcesMatchTree ==
    Returned => SourcePaths(db) = {relative_path(p) : p \in EligibleFiles}

\* C22: after every index_knowledge call that returns on an existing root, every
\* Source whose path was not met in the pass is deleted, and the persisted Source
\* paths are the relative paths of the eligible files of the tree, whatever calls
\* and edits came before.
C22_SourcesMatchTreeOnRoot ==
    (Returned /\ rootExists) =>
        /\ \A s \in Gone : s.path \notin SourcePaths(db)
        /\ SourcePaths(db) = {relative_path(p) : p \in EligibleFiles}

\* a second call that met one Source again, lost one and found a new file
C22_Witness ==
    /\ Returned
    /\ rootExists
    /\ prev.ran
    /\ Gone # {}
    /\ SourcePaths(db) # {}
    /\ SourcePaths(db) # SourcePaths(pre)

\* a call on a missing root that returned while Sources are stored
C22_WitnessMissingRoot ==
    /\ Returned
    /\ ~rootExists
    /\ SourcePaths(db) # {}

\* ------------------------------------------------------------------------
\* Properties of the paragraphs and the title extract_paragraphs returns
\* ------------------------------------------------------------------------

Largest(S) == CHOOSE x \in S : \A y \in S : y <= x
Smallest(S) == CHOOSE x \in S : \A y \in S : x <= y

\* line i is a heading line outside every fenced block
IsHeadingLine(lines, i) ==
    /\ ~IsFenceLine(lines[i])
    /\ ~InFence(lines, i)
    /\ startswith(strip(lines[i]), <<"#">>)

\* the text of a heading line: leading '#' and surrounding whitespace removed
HeadingText(l) == strip(lstrip_hash(strip(l)))

\* the text of the last of the given heading lines, None when there is none
SectionFrom(lines, headings) ==
    IF headings = {} THEN None ELSE HeadingText(lines[Largest(headings)])

\* C23 as stated: the section of every paragraph is the text of the nearest
\* heading line before the paragraph's first line, outside fenced blocks, and None
\* when no heading line precedes it.
C23_SectionIsNearestHeading ==
    ret.op = "extract_paragraphs" =>
        \A i \in 1..Len(ret.value.blocks) :
           LET b == ret.value.blocks[i]
           IN  b.section =
                  SectionFrom(arg, {j \in 1..(b.line - 1) : IsHeadingLine(arg, j)})

\* C23: the section of every paragraph is the text of the nearest heading line
\* with non-empty heading text before the paragraph's first line, outside fenced
\* blocks, and None when no such heading line precedes it: a heading line of '#'
\* characters only leaves the section as it was.
C23_SectionIsNearestTextHeading ==
    ret.op = "extract_paragraphs" =>
        \A i \in 1..Len(ret.value.blocks) :
           LET b == ret.value.blocks[i]
           IN  b.section =
                  SectionFrom(arg, {j \in 1..(b.line - 1) :
                                      /\ IsHeadingLine(arg, j)
                                      /\ HeadingText(arg[j]) # <<>>})

\* a heading with text, a heading without, then a paragraph: its section is the
\* text of the first heading
C23_Witness ==
    /\ ret.op = "extract_paragraphs"
    /\ arg = << <<"#", "#", " ", "S">>, <<"#">>, <<"a", "b", " ", " ", "c">> >>
    /\ ret.value.blocks = << [text |-> <<"a", "b", " ", "c">>, line |-> 3,
                              section |-> <<"S">>] >>

\* two paragraphs under two headings, and one before every heading
C23_WitnessSections ==
    /\ ret.op = "extract_paragraphs"
    /\ Len(ret.value.blocks) = 2
    /\ ret.value.blocks[1].section = None
    /\ ret.value.blocks[2].section = <<"S">>

\* line i is accumulated into a paragraph
IsPlainLine(lines, i) ==
    /\ ~IsFenceLine(lines[i])
    /\ ~InFence(lines, i)
    /\ strip(lines[i]) # <<>>
    /\ ~startswith(strip(lines[i]), <<"#">>)

\* the lines at which a run of accumulated lines starts
RunStarts(lines) ==
    {i \in 1..Len(lines) :
        IsPlainLine(lines, i) /\ (i = 1 \/ ~IsPlainLine(lines, i - 1))}

\* the words of the run of accumulated lines that starts at line i
RECURSIVE RunWords(_, _)
RunWords(lines, i) ==
    IF i > Len(lines) \/ ~IsPlainLine(lines, i) THEN <<>>
    ELSE split(lines[i]) \o RunWords(lines, i + 1)

\* C24: every paragraph has a non-empty text without leading or trailing
\* whitespace and without two whitespace characters in a row; its line is the
\* 1-based number of the first line accumulated into it and its text the words of
\* the lines accumulated from there, which are neither heading lines nor blank
\* nor fenced, so that no heading text is in it; the paragraphs come in strictly
\* increasing order of line, one for every run of accumulated lines.
C24_ParagraphShape ==
    ret.op = "extract_paragraphs" =>
        LET blocks == ret.value.blocks
        IN  /\ \A i \in 1..Len(blocks) :
                  LET t == blocks[i].text
                  IN  /\ t # <<>>
                      /\ ~IsSpace(t[1])
                      /\ ~IsSpace(t[Len(t)])
                      /\ \A k \in 1..(Len(t) - 1) : ~(IsSpace(t[k]) /\ IsSpace(t[k + 1]))
                      /\ blocks[i].line \in RunStarts(arg)
                      /\ t = join(RunWords(arg, blocks[i].line))
            /\ \A i, j \in 1..Len(blocks) : i < j => blocks[i].line < blocks[j].line
            /\ {blocks[i].line : i \in 1..Len(blocks)} = RunStarts(arg)

\* a paragraph of two lines between two headings: the words of both lines with
\* one space between them, at line 2
C24_Witness ==
    /\ ret.op = "extract_paragraphs"
    /\ arg = << <<"#", " ", "T">>, <<"a", "b", " ", " ", "c">>,
                <<"a", "b", " ", " ", "c">>, <<"#", "#", " ", "S">> >>
    /\ ret.value.blocks =
          << [text |-> <<"a", "b", " ", "c", " ", "a", "b", " ", "c">>, line |-> 2,
              section |-> <<"T">>] >>

\* two paragraphs separated by a whitespace-only line
C24_WitnessTwo ==
    /\ ret.op = "extract_paragraphs"
    /\ Len(arg) = 3
    /\ arg[2] = <<" ">>
    /\ Len(ret.value.blocks) = 2
    /\ ret.value.blocks[1].line = 1
    /\ ret.value.blocks[2].line = 3

\* the lines outside fenced blocks whose trimmed content is '# ' and a text
TitleHeadings(lines) ==
    {i \in 1..Len(lines) :
        /\ IsHeadingLine(lines, i)
        /\ startswith(strip(lines[i]), <<"#", " ">>)
        /\ HeadingText(lines[i]) # <<>>}

StatedTitle(lines) ==
    IF TitleHeadings(lines) = {} THEN <<>>
    ELSE HeadingText(lines[Smallest(TitleHeadings(lines))])

\* the file stem with '_' and '-' turned into spaces
StemTitle(p) == [i \in 1..Len(p.stem) |-> IF p.stem[i] \in {"_", "-"} THEN " " ELSE p.stem[i]]

\* C25: the title extract_paragraphs returns is the heading text of the first
\* line outside fenced blocks whose trimmed content is '# ' and a non-empty text;
\* later level-1 headings do not replace it, deeper headings do not set it, and
\* it is empty when there is no such line; the title given to the file is then
\* its stem with '_' and '-' replaced by spaces.
C25_TitleIsFirstLevelOne ==
    /\ ret.op = "extract_paragraphs" => ret.value.title = StatedTitle(arg)
    /\ ret.op = "title" =>
          ret.value = IF StatedTitle(arg) = <<>> THEN StemTitle(ret.path)
                      ELSE StatedTitle(arg)

\* a level-2 heading, a level-1 heading and another level-1 heading: the title is
\* the text of the first level-1 heading
C25_Witness ==
    /\ ret.op = "extract_paragraphs"
    /\ arg = << <<"#", "#", " ", "S">>, <<"#", " ", "T">>, <<"#", " ", "S">> >>
    /\ ret.value.title = <<"T">>

\* no level-1 heading with text: the empty title, and the stem of the file with
\* its '_' as a space
C25_WitnessFallback ==
    /\ ret.op = "title"
    /\ arg = << <<"#", "#", " ", "S">>, <<"#">> >>
    /\ ret.path = PathDash
    /\ ret.value = <<"a", " ", "b", " ", "c">>

\* ------------------------------------------------------------------------
\* Reuse of the recall cache
\* ------------------------------------------------------------------------

\* the cache entry and the signature of the root are what a build on the tree as
\* it is now leaves: nothing was added, removed or touched since the build
BuiltOnThisTree(c) ==
    /\ RootName \in DOMAIN c[1]
    /\ RootName \in DOMAIN c[2]
    /\ c[1][RootName] \in build_index
    /\ c[2][RootName] = build_signature(c[1][RootName])

\* C26: the signature stored at a build maps every file eligible at build time
\* to its modification time; so a recall_knowledge on a tree in which nothing was
\* added, removed or touched since the last build reuses the cached snippets and
\* reads no file, also when an eligible file yields no paragraph.
C26_UnchangedTreeReuses ==
    /\ (rq.kind = "count" \/ (rq.kind = "results" /\ rq.rebuilt)) =>
          INDEX_SIGNATURES[RootName] = [p \in EligibleFiles |-> mtimes[p]]
    /\ (rq.kind = "results" /\ BuiltOnThisTree(rq.before)) =>
          /\ ~rq.rebuilt
          /\ cacheVars = rq.before
          /\ rq.snippets = rq.before[1][RootName]

\* the same for the trees in which every eligible file yields a paragraph
C26_ReusedWhenAllYield ==
    (\A p \in EligibleFiles : FileParagraphs(p) # <<>>) =>
        /\ (rq.kind = "count" \/ (rq.kind = "results" /\ rq.rebuilt)) =>
              INDEX_SIGNATURES[RootName] = [p \in EligibleFiles |-> mtimes[p]]
        /\ (rq.kind = "results" /\ BuiltOnThisTree(rq.before)) =>
              /\ ~rq.rebuilt
              /\ cacheVars = rq.before
              /\ rq.snippets = rq.before[1][RootName]

\* a recall on an unchanged tree with a file of one heading rebuilt the cache
C26_WitnessRebuilt ==
    /\ rq.kind = "results"
    /\ BuiltOnThisTree(rq.before)
    /\ rq.rebuilt
    /\ \E p \in EligibleFiles : FileParagraphs(p) = <<>>

\* a recall on an unchanged tree of files with paragraphs reused the cache
C26_WitnessReused ==
    /\ rq.kind = "results"
    /\ BuiltOnThisTree(rq.before)
    /\ ~rq.rebuilt
    /\ Cardinality(EligibleFiles) = 2
    /\ rq.results # <<>>

\* ------------------------------------------------------------------------
\* The score of a snippet in which a query token occurs
\* ------------------------------------------------------------------------

\* the places of the text at which the token stands
Places(text, token) ==
    {i \in 1..(Len(text) - Len(token) + 1) : SubSeq(text, i, i + Len(token) - 1) = token}

\* the occurrences met from the left, each starting after the end of the one before
RECURSIVE DisjointPlaces(_, _, _)
DisjointPlaces(text, token, from) ==
    LET next == {i \in Places(text, token) : i >= from}
    IN  IF next = {} THEN 0
        ELSE 1 + DisjointPlaces(text, token, Smallest(next) + Len(token))

RECURSIVE SumOver(_, _)
SumOver(f, S) ==
    IF S = {} THEN 0
    ELSE LET x == CHOOSE y \in S : TRUE IN f[x] + SumOver(f, S \ {x})

TokenOccurs == \E i \in 1..Len(ret.tokens) : Places(lower(ret.text), ret.tokens[i]) # {}

\* four times the bonus for the query as a substring and for the distinct tokens
\* that occur
ScoreBonus ==
    (IF Places(lower(ret.text), ret.query_lower) # {} THEN 4 ELSE 0)
    + Cardinality({t \in {ret.tokens[i] : i \in 1..Len(ret.tokens)} :
                     Places(lower(ret.text), t) # {}})

\* C27 as stated: direct_hits is the sum, over the tokens of the query, of the
\* number of occurrences of the token in the lower-cased text.
C27_ScoreSumsEveryToken ==
    (ret.op = "_score_snippet" /\ TokenOccurs) =>
        /\ ret.value.den = 4
        /\ ret.value.num =
              4 * SumOver([i \in 1..Len(ret.tokens) |->
                             Cardinality(Places(lower(ret.text), ret.tokens[i]))],
                          1..Len(ret.tokens))
              + ScoreBonus

\* C27: for a snippet in which a query token occurs the score is direct_hits, plus
\* 1 when the lower-cased query is a substring of the lower-cased text, plus 0.25
\* for every distinct query token that occurs, where direct_hits is the sum, over
\* the distinct tokens of the query, of the number of occurrences of the token
\* that do not overlap, counted from the left.
C27_ScoreSumsDistinctTokens ==
    (ret.op = "_score_snippet" /\ TokenOccurs) =>
        /\ ret.value.den = 4
        /\ ret.value.num =
              4 * SumOver([t \in {ret.tokens[i] : i \in 1..Len(ret.tokens)} |->
                             DisjointPlaces(lower(ret.text), t, 1)],
                          {ret.tokens[i] : i \in 1..Len(ret.tokens)})
              + ScoreBonus

\* the query 'ab  AB' on 'Ab ab c': the token 'ab' twice in the query and twice in
\* the text, the query a substring: 2 + 1 + 0.25
C27_Witness ==
    /\ ret.op = "_score_snippet"
    /\ ret.text = <<"A", "b", " ", "a", "b", " ", "c">>
    /\ ret.tokens = << <<"a", "b">>, <<"a", "b">> >>
    /\ ret.value = [num |-> 13, den |-> 4]

\* the query 'bb' on 'bbb': one occurrence, 1 + 1 + 0.25
C27_WitnessOverlap ==
    /\ ret.op = "_score_snippet"
    /\ ret.text = <<"b", "b", "b">>
    /\ ret.tokens = << <<"b", "b">> >>
    /\ ret.value = [num |-> 9, den |-> 4]

\* two tokens, one of them twice in the text, the query no substring: 3 + 0.5
C27_WitnessTwoTokens ==
    /\ ret.op = "_score_snippet"
    /\ ret.query = <<"c", " ", "a", "b">>
    /\ ret.text = <<"A", "b", " ", "a", "b", " ", "c">>
    /\ ret.value.num > 0

\* ------------------------------------------------------------------------
\* The chunks that replace those of a Source
\* ------------------------------------------------------------------------

\* the positions of the paragraphs whose text is not empty once stripped
NonEmptyAt(paragraphs) == {i \in 1..Len(paragraphs) : strip(paragraphs[i].text) # <<>>}

\* the Chunks of the Source after the replacement, and their number
NewChunks == ChunksOf(ret.db, {ret.source_id})

\* the Chunk of the Source that holds a given order_index
ChunkAt(k) == CHOOSE c \in NewChunks : c.order_index = k

\* the deletion and the insertion apart from order_index: the old Chunks and
\* entries of the Source are gone, those of other Sources are kept, and there is
\* one Chunk with its full-text entry per paragraph of non-empty text, the later
\* paragraph with the higher id
ReplacedInOrder ==
    /\ ChunksOf(ret.before, {ret.source_id}) \cap ret.db.kb_chunks = {}
    /\ EntriesOf(ret.before, ChunksOf(ret.before, {ret.source_id}))
          \cap ret.db.kb_chunks_fts = {}
    /\ ret.db.kb_chunks \ NewChunks = ret.before.kb_chunks
                                         \ ChunksOf(ret.before, {ret.source_id})
    /\ ret.count = Cardinality(NonEmptyAt(ret.paragraphs))
    /\ Cardinality(NewChunks) = ret.count
    /\ \A c \in NewChunks : [rowid |-> c.id, text |-> c.text] \in ret.db.kb_chunks_fts
    /\ Cardinality(EntriesOf(ret.db, NewChunks)) = ret.count
    /\ \A i \in NonEmptyAt(ret.paragraphs) :
          \E c \in NewChunks :
             /\ c.text = strip(ret.paragraphs[i].text)
             /\ c.line = ret.paragraphs[i].line
             /\ \A j \in NonEmptyAt(ret.paragraphs) :
                   \A e \in NewChunks :
                      (j > i /\ e.line = ret.paragraphs[j].line) => e.id > c.id

\* C28: replacing the chunks of a Source deletes its Chunks and their full-text
\* entries and inserts one Chunk and one entry per paragraph of non-empty text, in
\* input order, with order_index the 0-based position among the Chunks inserted:
\* the order_index values of the n Chunks are 0, 1, ..., n - 1, also when the
\* list holds paragraphs of empty text.
C28_OrderIndexDense ==
    ret.op = "_insert_chunks" =>
        /\ ReplacedInOrder
        /\ {c.order_index : c \in NewChunks} = 0..(ret.count - 1)
        /\ \A c, e \in NewChunks : c.order_index < e.order_index <=> c.id < e.id

\* what the code does: order_index is the 0-based position of the paragraph in
\* the input list, so the values are 0, ..., n - 1 when no paragraph of the list
\* has an empty text
C28_OrderIndexOfInput ==
    ret.op = "_insert_chunks" =>
        /\ ReplacedInOrder
        /\ {c.order_index : c \in NewChunks} = {i - 1 : i \in NonEmptyAt(ret.paragraphs)}
        /\ \A c \in NewChunks : c.line = c.order_index + 1
        /\ (NonEmptyAt(ret.paragraphs) = 1..Len(ret.paragraphs)) =>
              {c.order_index : c \in NewChunks} = 0..(ret.count - 1)

\* a whitespace-only paragraph before one with text: the one Chunk inserted has
\* order_index 1
C28_WitnessGap ==
    /\ ret.op = "_insert_chunks"
    /\ arg = << <<" ">>, <<"a", "b", " ", " ", "c">> >>
    /\ ret.count = 1
    /\ {c.order_index : c \in NewChunks} = {1}

\* ------------------------------------------------------------------------
\* The persisted path and the in-memory path
\* ------------------------------------------------------------------------

\* a step of index_knowledge, a return or raise of search_knowledge, and a return
\* or raise of recall_knowledge or rebuild_index
IndexStep == pc' # pc \/ sources' # sources \/ stale' # stale \/ ncalls' # ncalls
SearchStep == sq' # sq /\ sq'.kind # "none"
RecallStep == rq' # rq /\ rq'.kind # "none"

\* C29: index_knowledge and search_knowledge leave the recall cache and its
\* signatures as they are, and what search_knowledge returns are rows of the
\* database; recall_knowledge and rebuild_index open no connection and leave the
\* Sources, Chunks and full-text entries as they are, and the snippets they build
\* are those of the files; none of the four writes to the document tree.
C29_NoSharedState ==
    [][/\ (IndexStep \/ SearchStep) => UNCHANGED <<cacheVars, treeVars, mtimes>>
       /\ (SearchStep /\ sq'.kind = "hits") =>
              {sq'.rows[i] : i \in 1..Len(sq'.rows)}
                 \subseteq match_rows(db, normalize_query(sq'.query))
       /\ RecallStep => UNCHANGED <<dbVars, opened, treeVars, mtimes>>
       /\ (RecallStep /\ rq'.kind = "results" /\ rq'.rebuilt) =>
              rq'.snippets \in build_index_at(rq'.root)]_vars

\* a second index_knowledge removed the Source of a dropped file and a search ran
\* after it, while both roots have cached snippets, those of the indexed root
\* still with the dropped file
C29_Witness ==
    /\ pc = "done"
    /\ ncalls = 2
    /\ stats.deleted = 1
    /\ sq.kind = "hits"
    /\ sq.hits # <<>>
    /\ Roots \subseteq DOMAIN INDEX_CACHE
    /\ \E i \in 1..Len(INDEX_CACHE[RootName]) :
          INDEX_CACHE[RootName][i].rel_path \notin SourcePaths(db)

\* recall_knowledge rebuilt the snippets from a tree the database does not match
C29_WitnessRecall ==
    /\ rq.kind = "results"
    /\ rq.rebuilt
    /\ rq.root = RootName
    /\ rq.results # <<>>
    /\ ncalls = 2
    /\ SourcePaths(db) # {relative_path(p) : p \in EligibleFiles}

\* what is cached for a root: nothing, or the snippets and the signature
Entry(cache, signatures, root) ==
    IF root \in DOMAIN cache /\ root \in DOMAIN signatures
    THEN <<"entry", cache[root], signatures[root]>>
    ELSE <<"none", root \in DOMAIN cache, root \in DOMAIN signatures>>

\* C30: the cache is keyed by the root: recall_knowledge and rebuild_index for one
\* root leave the snippets and the signature of every other root as they are, and
\* the entry of a root changes only in a call for that root that rebuilds, which
\* leaves an entry; no entry is removed.
C30_KeyedByRoot ==
    [][\A r \in Roots :
          /\ (RecallStep /\ rq'.root # r) =>
                Entry(INDEX_CACHE', INDEX_SIGNATURES', r)
                   = Entry(INDEX_CACHE, INDEX_SIGNATURES, r)
          /\ Entry(INDEX_CACHE', INDEX_SIGNATURES', r)
                # Entry(INDEX_CACHE, INDEX_SIGNATURES, r) =>
                /\ RecallStep
                /\ rq'.root = r
                /\ rq'.kind = "count" \/ (rq'.kind = "results" /\ rq'.rebuilt)
                /\ rq'.before = cacheVars
                /\ Entry(INDEX_CACHE', INDEX_SIGNATURES', r)[1] = "entry"
                /\ INDEX_CACHE'[r] \in build_index_at(r)]_vars

\* a recall for the indexed root replaced its entry while the other root had one,
\* which is as it was
C30_Witness ==
    /\ rq.kind = "results"
    /\ rq.root = RootName
    /\ rq.rebuilt
    /\ Roots \subseteq DOMAIN rq.before[1]
    /\ rq.before[1][RootName] # INDEX_CACHE[RootName]
    /\ INDEX_CACHE[OtherRoot] = rq.before[1][OtherRoot]
    /\ INDEX_CACHE[OtherRoot] = OtherSnippets
    /\ INDEX_SIGNATURES[OtherRoot] = rq.before[2][OtherRoot]

\* a rebuild for the other root, with the entry of the indexed root stale and kept
C30_WitnessOther ==
    /\ rq.kind = "count"
    /\ rq.root = OtherRoot
    /\ RootName \in DOMAIN INDEX_CACHE
    /\ ~cache_current(RootName)
    /\ INDEX_CACHE[RootName] = rq.before[1][RootName]

\* ------------------------------------------------------------------------
\* The two copies of the segmenter
\* ------------------------------------------------------------------------

\* C31: for every text, _extract_paragraphs of recall.py returns the same title
\* and the same sequence of (text, line, section) as extract_paragraphs of
\* _knowledge.py.
C31_SameSegmentation ==
    ret.op = "extract_paragraphs" =>
        /\ ret.copy.title = ret.value.title
        /\ Len(ret.copy.blocks) = Len(ret.value.blocks)
        /\ \A i \in 1..Len(ret.value.blocks) :
              /\ ret.copy.blocks[i].text = ret.value.blocks[i].text
              /\ ret.copy.blocks[i].line = ret.value.blocks[i].line
              /\ ret.copy.blocks[i].section = ret.value.blocks[i].section

\* both copies segmented a text with a title and a fence between two text lines
\* that is never closed: the title and the one paragraph before the fence
C31_Witness ==
    /\ ret.op = "extract_paragraphs"
    /\ arg = << <<"#", " ", "T">>, <<"a", "b", " ", " ", "c">>, Fence,
                <<"a", "b", " ", " ", "c">> >>
    /\ ret.copy.title = <<"T">>
    /\ Len(ret.copy.blocks) = 1
    /\ Len(ret.value.blocks) = 1

\* ------------------------------------------------------------------------
\* The persisted index and the in-memory index of one tree
\* ------------------------------------------------------------------------

\* (source path, source title, section, line, text) over the persisted Chunks
ChunkTuples(d) ==
    {<<s.path, s.title, c.section, c.line, c.text>> :
        <<s, c>> \in {x \in d.kb_sources \X d.kb_chunks : x[2].source_id = x[1].id}}

\* (rel_path, title, section, line, text) over a tuple of snippets
SnippetTuples(snippets) ==
    {<<snippets[i].rel_path, snippets[i].title, snippets[i].section, snippets[i].line,
       snippets[i].text>> : i \in 1..Len(snippets)}

\* C32: for one tree under an existing root, after index_knowledge has completed
\* the (source path, source title, section, line, text) of the persisted Chunks
\* are the (rel_path, title, section, line, text) of the snippets rebuild_index
\* builds for the root, and of those it has cached when it ran on that tree.
C32_IndexesAgree ==
    (Returned /\ rootExists) =>
        /\ \A snippets \in build_index : ChunkTuples(db) = SnippetTuples(snippets)
        /\ (rq.kind = "count" /\ rq.root = RootName) =>
              ChunkTuples(db) = SnippetTuples(INDEX_CACHE[RootName])

\* a second index_knowledge replaced the chunks of a file and rebuild_index ran
\* on the same tree: both hold the three paragraphs, one file with the title of
\* its heading, one with the title made of its name
C32_Witness ==
    /\ Returned
    /\ rootExists
    /\ ncalls = 2
    /\ stats.indexed > 0
    /\ rq.kind = "count"
    /\ rq.root = RootName
    /\ rq.count > 0
    /\ Cardinality(ChunkTuples(db)) = rq.count
    /\ \E t \in ChunkTuples(db) : t[2] = <<"n">>

\* ------------------------------------------------------------------------
\* What index_knowledge stores, with and without force
\* ------------------------------------------------------------------------

\* the Sources as (path, title, fingerprint), the Chunks as (source path,
\* order_index, section, line, text): the database up to ids and timestamps
SourceTuples(d) == {<<s.path, s.title, s.fingerprint>> : s \in d.kb_sources}

StoredChunkTuples(d) ==
    {<<s.path, c.order_index, c.section, c.line, c.text>> :
        <<s, c>> \in {x \in d.kb_sources \X d.kb_chunks : x[2].source_id = x[1].id}}

\* the same for the tree: what the eligible files hold
TreeSourceTuples ==
    {<<relative_path(p), FileTitle(p), FileFingerprint(p)>> : p \in EligibleFiles}

TreeChunkTuples ==
    UNION {{<<relative_path(p), i - 1, FileParagraphs(p)[i].section,
              FileParagraphs(p)[i].line, FileParagraphs(p)[i].text>> :
               i \in 1..Len(FileParagraphs(p))} : p \in EligibleFiles}

\* C33: index_knowledge(force=True) counts every eligible file as indexed and
\* none as skipped, and after a call with either value of force, on any database
\* and tree, the Sources (path, title, fingerprint) and the Chunks (source path,
\* order_index, section, line, text) are the ones the tree determines, so those
\* of a forced call and of an unforced call on the same database and tree are
\* the same; every Chunk belongs to a Source.
C33_ForceStoresTheSame ==
    (Returned /\ rootExists) =>
        /\ force => (stats.skipped = 0 /\ stats.indexed = Cardinality(EligibleFiles))
        /\ SourceTuples(db) = TreeSourceTuples
        /\ StoredChunkTuples(db) = TreeChunkTuples
        /\ Cardinality(db.kb_chunks) = Cardinality(TreeChunkTuples)

\* a forced call on a tree of two files, one of them unchanged since the call
\* before, which a call without force would have skipped
C33_Witness ==
    /\ Returned
    /\ rootExists
    /\ force
    /\ stats.indexed = 2
    /\ Unchanged # {}
    /\ Changed # {}
    /\ db.kb_chunks # {}

\* an unforced call on such a tree
C33_WitnessUnforced ==
    /\ Returned
    /\ rootExists
    /\ ~force
    /\ stats.skipped = 1
    /\ Changed # {}
    /\ db.kb_chunks # {}

\* ------------------------------------------------------------------------
\* Fence lines end the paragraph
\* ------------------------------------------------------------------------

\* the words of the text lines from line i up to line j, both included
RECURSIVE WordsOfLines(_, _, _)
WordsOfLines(lines, i, j) ==
    IF i > j THEN <<>> ELSE split(lines[i]) \o WordsOfLines(lines, i + 1, j)

\* line i is a text line: not blank, not a heading, not a fence line
IsTextLine(l) ==
    /\ strip(l) # <<>>
    /\ ~startswith(strip(l), <<"#">>)
    /\ ~IsFenceLine(l)

\* lines o and c are the opening and the closing fence line of one fenced block
FencedBlock(lines, o, c) ==
    /\ o < c
    /\ IsFenceLine(lines[o])
    /\ IsFenceLine(lines[c])
    /\ Cardinality({j \in 1..(o - 1) : IsFenceLine(lines[j])}) % 2 = 0
    /\ \A j \in (o + 1)..(c - 1) : ~IsFenceLine(lines[j])

\* what C34 says of the paragraphs one segmenter made of the lines
FenceEndsParagraph(lines, blocks) ==
    \* no paragraph starts on a fence line, none reaches over one
    /\ \A k \in 1..Len(lines) : \A i \in 1..Len(blocks) :
          IsFenceLine(lines[k]) =>
              /\ blocks[i].line # k
              /\ blocks[i].line < k =>
                    \E e \in blocks[i].line..(k - 1) :
                        blocks[i].text = join(WordsOfLines(lines, blocks[i].line, e))
    \* text right before a fenced block and text right after it: two paragraphs
    /\ \A o, c \in 2..(Len(lines) - 1) :
          (FencedBlock(lines, o, c) /\ IsTextLine(lines[o - 1]) /\ IsTextLine(lines[c + 1])) =>
              \E i \in 1..(Len(blocks) - 1) :
                  /\ blocks[i].line < o
                  /\ blocks[i].text = join(WordsOfLines(lines, blocks[i].line, o - 1))
                  /\ blocks[i + 1].line = c + 1
                  /\ \E e \in (c + 1)..Len(lines) :
                        blocks[i + 1].text = join(WordsOfLines(lines, c + 1, e))

\* C34: a fence line, opening or closing, ends the paragraph being accumulated,
\* in extract_paragraphs and in recall's _extract_paragraphs: no paragraph holds
\* text from both sides of a fence line, and text lines directly before a fenced
\* block and directly after it are two paragraphs, the second with the line of
\* its own first line after the fence.
C34_FenceEndsParagraph ==
    ret.op = "extract_paragraphs" =>
        /\ FenceEndsParagraph(arg, ret.value.blocks)
        /\ FenceEndsParagraph(arg, ret.copy.blocks)

\* text, an empty fenced block, text: two paragraphs at lines 1 and 4
C34_Witness ==
    /\ ret.op = "extract_paragraphs"
    /\ arg = << <<"a", "b", " ", " ", "c">>, Fence, Fence, <<"a", "b", " ", " ", "c">> >>
    /\ ret.value.blocks =
          << [text |-> <<"a", "b", " ", "c">>, line |-> 1, section |-> None],
             [text |-> <<"a", "b", " ", "c">>, line |-> 4, section |-> None] >>
    /\ ret.copy.blocks = ret.value.blocks

\* text before an opening fence that is never closed: the paragraph ends there
C34_WitnessOpening ==
    /\ ret.op = "extract_paragraphs"
    /\ arg = << <<"a", "b", " ", " ", "c">>, Fence, <<"a", "b", " ", " ", "c">> >>
    /\ Len(ret.value.blocks) = 1
    /\ ret.value.blocks[1].line = 1
    /\ ret.value.blocks[1].text = <<"a", "b", " ", "c">>

\* ------------------------------------------------------------------------
\* Direct hits before fallback matches
\* ------------------------------------------------------------------------

\* a token of the query occurs in the snippet
TokenHit(snippet) ==
    \E i \in 1..Len(RecallTokens) : contains(lower(snippet.text), RecallTokens[i])

\* the snippet of the last recall that result i was made of
SnippetOf(i) ==
    CHOOSE snippet \in {rq.snippets[k] : k \in 1..Len(rq.snippets)} :
        i \in ResultsOf(snippet)

\* C35: in every recall_knowledge result every snippet in which a query token
\* occurs comes before every snippet matched by the similarity fallback alone;
\* the score of the former is at least 1.25, the score of the latter is above 0.6
\* and at most 1.0; a fallback match is returned only after all direct hits.
C35_DirectBeforeFallback ==
    rq.kind = "results" =>
        /\ \A i \in 1..Len(rq.results) :
              LET score == rq.results[i].score
              IN  IF TokenHit(SnippetOf(i))
                  THEN 4 * score.num >= 5 * score.den
                  ELSE /\ 10 * score.num > 6 * score.den
                       /\ score.num <= score.den
        /\ \A i, j \in 1..Len(rq.results) :
              (TokenHit(SnippetOf(i)) /\ ~TokenHit(SnippetOf(j))) => i < j
        /\ \A k \in 1..Len(rq.snippets) : \A j \in 1..Len(rq.results) :
              (TokenHit(rq.snippets[k]) /\ ~TokenHit(SnippetOf(j))) =>
                  \E i \in ResultsOf(rq.snippets[k]) : i < j

\* "ab" over "ab b", "b", "ab", "b b": two direct hits, then "b" by the fallback
C35_Witness ==
    /\ rq.kind = "results"
    /\ rq.query = RecallAB
    /\ Len(rq.results) = 3
    /\ TokenHit(SnippetOf(1))
    /\ TokenHit(SnippetOf(2))
    /\ ~TokenHit(SnippetOf(3))
    /\ SnippetOf(3).text = <<"b">>
    /\ 3 * rq.results[3].score.num = 2 * rq.results[3].score.den

\* the lowest score of a direct hit: one token found once, the query not in the text
C35_WitnessLowest ==
    /\ rq.kind = "results"
    /\ rq.query = RecallABC
    /\ \E i \in 1..Len(rq.results) :
          /\ TokenHit(SnippetOf(i))
          /\ 4 * rq.results[i].score.num = 5 * rq.results[i].score.den

\* the highest score of a fallback match: "ba" and "ab" hold the same characters
C35_WitnessHighest ==
    /\ rq.kind = "results"
    /\ rq.query = RecallBA
    /\ \E i \in 1..Len(rq.results) :
          /\ ~TokenHit(SnippetOf(i))
          /\ rq.results[i].score.num = rq.results[i].score.den

\* ------------------------------------------------------------------------
\* Queries without a token
\* ------------------------------------------------------------------------

\* a query that is not blank and in which no two alphanumeric characters are
\* next to each other: its maximal alphanumeric runs have length 0 or 1
Tokenless(query) ==
    /\ \E i \in 1..Len(query) : ~IsSpace(query[i])
    /\ \A i \in 1..(Len(query) - 1) :
          ~(fold(query[i]) \in Alnum /\ fold(query[i + 1]) \in Alnum)

\* C36: recall_knowledge answers every non-blank query without a token with
\* ValueError, raised before the snippet cache is read, rebuilt or changed;
\* search_knowledge raises no ValueError for such a query: it opens the database
\* and hands the query to the full-text engine, whose answer (rows or a syntax
\* error) is the outcome.
C36_TokenlessQueries ==
    /\ (rq.kind \in {"ValueError", "results"} /\ Tokenless(rq.query)) =>
          /\ rq.kind = "ValueError"
          /\ ~rq.loaded
          /\ ~rq.rebuilt
          /\ cacheVars = rq.before
    /\ (sq.kind # "none" /\ Tokenless(sq.query)) =>
          /\ sq.kind \in {"hits", "OperationalError"}
          /\ sq.opened = 1
          /\ sq.kind = "OperationalError" <=> ~fts_syntax_ok(normalize_query(sq.query))

\* "b b" was rejected by recall_knowledge while the cache held snippets
C36_Witness ==
    /\ rq.kind = "ValueError"
    /\ rq.query = RecallBB
    /\ RootName \in DOMAIN INDEX_CACHE
    /\ INDEX_CACHE[RootName] # <<>>
    /\ cacheVars = rq.before

\* "b" was answered by search_knowledge with rows
C36_WitnessSearch ==
    /\ sq.kind = "hits"
    /\ sq.query = QueryB
    /\ Tokenless(sq.query)
    /\ Len(sq.hits) > 0

\* "#" was rejected by recall_knowledge and handed to the engine by search_knowledge
C36_WitnessRecallBad ==
    /\ rq.kind = "ValueError"
    /\ rq.query = QueryBad

C36_WitnessSearchBad ==
    /\ sq.kind = "OperationalError"
    /\ sq.query = QueryBad
    /\ sq.opened = 1

\* ------------------------------------------------------------------------
\* A cache build, step by step, with writes to the tree in between
\* ------------------------------------------------------------------------
\* _build_index reads every file (recall.py line 152), _build_signature asks for
\* the modification times afterwards (line 177). The files belong to the operator
\* as well, whose writes may land between the two. rq holds the position of the
\* call: "building" after _build_index, with the snippets it made and the number
\* of writes that landed since.

\* the calls that build: rebuild_index() and recall_knowledge('ab', limit=0)
BuildCalls ==
    {[op |-> "rebuild_index", query |-> <<>>, limit |-> 0],
     [op |-> "recall_knowledge", query |-> RecallAB, limit |-> 0]}

\* rebuild_index lines 126-128, _load_index lines 134-142: up to and including
\* _INDEX_CACHE[root] = snippets
BuildRead(call) ==
    /\ Idle
    /\ ~connOpen
    /\ rq.kind # "building"
    /\ call.op = "recall_knowledge" =>
          (~recall_rejects(call.query) /\ ~cache_current(RootName))
    /\ \E snippets \in build_index :
          /\ INDEX_CACHE' = (RootName :> snippets) @@ INDEX_CACHE
          /\ rq' = [kind |-> "building", op |-> call.op, root |-> RootName,
                    query |-> call.query, limit |-> call.limit, before |-> cacheVars,
                    snippets |-> snippets, edits |-> 0]
    /\ sq' = NoSearch
    /\ UNCHANGED <<treeVars, dbVars, indexVars, mtimes, INDEX_SIGNATURES>>
    /\ UNCHANGED textVars

\* rebuild_index lines 129-130, _load_index lines 143-144 and recall_knowledge
\* lines 90-117: the signature is taken and the call returns
BuildRecord ==
    /\ rq.kind = "building"
    /\ INDEX_SIGNATURES' =
          (rq.root :> build_signature(rq.snippets)) @@ INDEX_SIGNATURES
    /\ rq' = IF rq.op = "rebuild_index"
             THEN [kind |-> "count", root |-> rq.root, count |-> Len(rq.snippets),
                   before |-> rq.before, edits |-> rq.edits]
             ELSE [kind |-> "results", root |-> rq.root, query |-> rq.query,
                   limit |-> rq.limit, loaded |-> TRUE, rebuilt |-> TRUE,
                   before |-> rq.before, snippets |-> rq.snippets,
                   results |-> recall_results(rq.snippets,
                                              tokenize(normalize_query(rq.query)),
                                              lower(normalize_query(rq.query)),
                                              rq.limit),
                   edits |-> rq.edits]
    /\ UNCHANGED <<treeVars, dbVars, indexVars, sq, mtimes, INDEX_CACHE>>
    /\ UNCHANGED textVars

\* recall_knowledge('ab', limit=0) when _load_index finds the signature unchanged
RecallCached ==
    /\ rq.kind # "building"
    /\ cache_current(RootName)
    /\ Recall(RecallAB, 0)

\* the operator writes a file, between calls or while a build is under way; the
\* write moves the modification time of the file forward
EditFile(p, bytes, mtime) ==
    /\ Idle
    /\ rootExists
    /\ files[p] # bytes
    /\ mtime > mtimes[p]
    /\ files' = [files EXCEPT ![p] = bytes]
    /\ mtimes' = [mtimes EXCEPT ![p] = mtime]
    /\ sq' = NoSearch
    /\ rq' = IF rq.kind = "building" THEN [rq EXCEPT !.edits = @ + 1] ELSE NoRecall
    /\ touched' = TRUE
    /\ UNCHANGED <<rootExists, dbVars, pc, force, sources, seen_paths, now,
                   existing_sources, stale, stats, opened, dirty, pre, prev, ncalls,
                   cacheVars>>
    /\ UNCHANGED textVars

NextBuild ==
    \/ \E call \in BuildCalls : BuildRead(call)
    \/ BuildRecord
    \/ RecallCached
    \/ \E p \in Paths : \E bytes \in QueryContents(p) : \E mtime \in 1..MaxMtime :
          EditFile(p, bytes, mtime)

SpecBuild == InitQuery /\ [][NextBuild]_vars

\* the snippets of the tuple that were made of the file
RECURSIVE SnippetsAt(_, _)
SnippetsAt(snippets, p) ==
    IF snippets = <<>> THEN <<>>
    ELSE IF Head(snippets).path = p
         THEN <<Head(snippets)>> \o SnippetsAt(Tail(snippets), p)
         ELSE SnippetsAt(Tail(snippets), p)

\* a build has just returned: no write has landed since the signature was taken,
\* so every file has the content and the modification time it had then
JustBuilt == rq.kind = "count" \/ (rq.kind = "results" /\ rq.rebuilt)

\* C37: after any build, by recall_knowledge or rebuild_index, the cached snippets
\* of every file in the stored signature are the ones of the content the file had
\* at the modification time recorded for it, also when a write landed during the
\* build; and a recall_knowledge call that takes the cache as current returns the
\* snippets of the files as they are.
C37_NoStaleCacheAfterBuild ==
    /\ JustBuilt =>
          \A p \in DOMAIN INDEX_SIGNATURES[rq.root] :
              /\ INDEX_SIGNATURES[rq.root][p] = st_mtime(p)
              /\ SnippetsAt(INDEX_CACHE[rq.root], p) = file_snippets(p)
    /\ (rq.kind = "results" /\ ~rq.rebuilt) => rq.snippets \in build_index

\* the same of the builds during which no write landed
QuietBuildIsFresh ==
    /\ (JustBuilt /\ rq.edits = 0) =>
          \A p \in DOMAIN INDEX_SIGNATURES[rq.root] :
              /\ INDEX_SIGNATURES[rq.root][p] = st_mtime(p)
              /\ SnippetsAt(INDEX_CACHE[rq.root], p) = file_snippets(p)

\* a write landed during a build and the build's signature holds its time
RacedBuild ==
    /\ JustBuilt
    /\ rq.edits > 0
    /\ \E p \in DOMAIN INDEX_SIGNATURES[rq.root] :
          /\ INDEX_SIGNATURES[rq.root][p] = st_mtime(p)
          /\ SnippetsAt(INDEX_CACHE[rq.root], p) # file_snippets(p)

\* ------------------------------------------------------------------------
\* db.py, triggers.py, cli.py: the mission workflow
\* ------------------------------------------------------------------------
\* The tables missions and sessions live in the same database file. Where the
\* workflow is exercised db is the content of these two tables: missions as a
\* function from mission id to row, sessions as the rows in the order of their
\* AUTOINCREMENT ids. Every helper commits before it returns, so work = db between
\* the steps. ret holds the outcome of the last workflow call, or the position of
\* a _run_current_mission call whose executor is running.

\* db.py line 20
MISSION_STATUSES == {"Queued", "Current", "In Progress", "Completed", "Blocked"}

MissionIds == {"m1", "m2", "m3"}

\* an id no row has
UnknownMission == "m9"

NoMission == "<none>"

\* ORDER BY datetime(created_at) ASC, id ASC: m2 and m3 were created before m1
CreatedAt == [m \in MissionIds |-> IF m = "m1" THEN 2 ELSE 1]

IdKey(m) == CASE m = "m1" -> 1 [] m = "m2" -> 2 [] m = "m3" -> 3

MissionBefore(a, b) ==
    \/ CreatedAt[a] < CreatedAt[b]
    \/ CreatedAt[a] = CreatedAt[b] /\ IdKey(a) < IdKey(b)

\* SELECT ... WHERE status = ? ORDER BY datetime(created_at) ASC, id ASC LIMIT 1
first_with_status(d, status) ==
    LET rows == {m \in MissionIds : d.missions[m].status = status}
    IN  IF rows = {} THEN NoMission
        ELSE CHOOSE m \in rows : \A o \in rows \ {m} : MissionBefore(m, o)

get_mission(d, mission_id) == IF mission_id \in MissionIds THEN mission_id ELSE NoMission
get_current_mission(d) == first_with_status(d, "Current")
get_in_progress_mission(d) == first_with_status(d, "In Progress")
get_next_queued_mission(d) == first_with_status(d, "Queued")

\* mark_in_progress(conn, mission_id=...) for a mission that exists
mark_in_progress(d, mission_id) ==
    [d EXCEPT !.missions[mission_id].status = "In Progress"]

\* complete_mission(conn, mission_id=..., completed_at=...) for a mission that
\* exists: the database afterwards and the mission returned
complete_mission(d, mission_id, completed_at) ==
    IF d.missions[mission_id].status = "Completed"
    THEN [db |-> d, promoted |-> NoMission]
    ELSE LET done == [d EXCEPT !.missions[mission_id].status = "Completed",
                               !.missions[mission_id].completed_at = completed_at]
             promoted == get_next_queued_mission(done)
         IN  [db |-> IF promoted = NoMission THEN done
                     ELSE [done EXCEPT !.missions[promoted].status = "Current"],
              promoted |-> promoted]

\* log_session(conn, action=..., mission_id=..., ts=...)
log_session(d, action, mission_id, ts) ==
    [d EXCEPT !.sessions = Append(@, [id |-> Len(@) + 1, ts |-> ts,
                                      mission_id |-> mission_id, action |-> action])]

\* variant: a Current mission is taken before one In Progress
select_active_mission_current_first(d) ==
    IF get_current_mission(d) # NoMission
    THEN [db |-> mark_in_progress(d, get_current_mission(d)),
          mission |-> get_current_mission(d), status_changed |-> TRUE]
    ELSE IF get_in_progress_mission(d) # NoMission
    THEN [db |-> d, mission |-> get_in_progress_mission(d), status_changed |-> FALSE]
    ELSE IF get_next_queued_mission(d) # NoMission
    THEN [db |-> mark_in_progress(d, get_next_queued_mission(d)),
          mission |-> get_next_queued_mission(d), status_changed |-> TRUE]
    ELSE [db |-> d, mission |-> NoMission, status_changed |-> FALSE]

\* TriggerRegistry._select_active_mission()
select_active_mission(d) ==
    IF get_in_progress_mission(d) # NoMission
    THEN [db |-> d, mission |-> get_in_progress_mission(d), status_changed |-> FALSE]
    ELSE IF get_current_mission(d) # NoMission
    THEN [db |-> mark_in_progress(d, get_current_mission(d)),
          mission |-> get_current_mission(d), status_changed |-> TRUE]
    ELSE IF get_next_queued_mission(d) # NoMission
    THEN [db |-> mark_in_progress(d, get_next_queued_mission(d)),
          mission |-> get_next_queued_mission(d), status_changed |-> TRUE]
    ELSE [db |-> d, mission |-> NoMission, status_changed |-> FALSE]

\* _detect_mission_issues, lines 217-229: the missions reported as in conflict
conflicts(d) ==
    UNION {IF Cardinality({m \in MissionIds : d.missions[m].status = label}) > 1
           THEN {m \in MissionIds : d.missions[m].status = label} ELSE {} :
              label \in {"In Progress", "Current"}}

\* the mission tables the workflow starts from: any statuses without a conflict
MissionTables ==
    {[missions |-> [m \in MissionIds |->
                        [status |-> st[m], created_at |-> CreatedAt[m],
                         completed_at |-> IF st[m] = "Completed" THEN "then" ELSE "NULL"]],
      sessions |-> <<>>] : st \in [MissionIds -> MISSION_STATUSES]}

InitMission ==
    /\ rootExists = TRUE
    /\ files = [p \in Paths |-> IF p = PathA THEN DocA ELSE DocB]
    /\ db \in {d \in MissionTables : conflicts(d) = {}}
    /\ connOpen = FALSE
    /\ work = db
    /\ pc = "idle"
    /\ force = FALSE
    /\ sources = <<>>
    /\ seen_paths = {}
    /\ now = 1
    /\ existing_sources = <<>>
    /\ stale = <<>>
    /\ stats = [indexed |-> 0, skipped |-> 0, deleted |-> 0, chunks |-> 0]
    /\ opened = 0
    /\ dirty = FALSE
    /\ pre = EmptyDb
    /\ prev = [ran |-> FALSE, force |-> FALSE, outcome |-> "idle", touched |-> FALSE]
    /\ touched = FALSE
    /\ ncalls = 0
    /\ sq = NoSearch
    /\ mtimes = [p \in Paths |-> 0]
    /\ INDEX_CACHE = <<>>
    /\ INDEX_SIGNATURES = <<>>
    /\ rq = NoRecall
    /\ arg = <<>>
    /\ ret = NoReturn

\* what no step of the workflow touches
kbVars == <<rootExists, files, connOpen, pc, force, sources, seen_paths, now,
            existing_sources, stale, stats, opened, dirty, pre, prev, touched, ncalls,
            sq, mtimes, INDEX_CACHE, INDEX_SIGNATURES, rq, arg>>

\* no _run_current_mission call is waiting for its executor
NotRunning == ret.op # "running"

\* 'mission complete <id>': complete_mission from call to return or raise
CompleteMission(mission_id) ==
    /\ NotRunning
    /\ IF get_mission(db, mission_id) = NoMission
       THEN /\ ret' = [op |-> "complete_mission", mission_id |-> mission_id,
                       raised |-> "ValueError", before |-> db]
            /\ UNCHANGED <<db, work>>
       ELSE LET r == complete_mission(db, mission_id, "now")
            IN  /\ db' = r.db
                /\ work' = r.db
                /\ ret' = [op |-> "complete_mission", mission_id |-> mission_id,
                           raised |-> "", promoted |-> r.promoted, before |-> db]
    /\ UNCHANGED kbVars

\* 'mission next' and 'mission next --start', cli.py lines 476-497
MissionNext(start) ==
    /\ NotRunning
    /\ LET in_progress == get_in_progress_mission(db)
           mission == IF in_progress # NoMission THEN in_progress
                      ELSE get_current_mission(db)
       IN  IF mission = NoMission
           THEN /\ ret' = [op |-> "mission_next", start |-> start, exit |-> 1,
                           mission |-> NoMission, before |-> db]
                /\ UNCHANGED <<db, work>>
           ELSE IF start /\ db.missions[mission].status = "Current"
           THEN /\ db' = mark_in_progress(db, mission)
                /\ work' = db'
                /\ ret' = [op |-> "mission_next", start |-> start, exit |-> 0,
                           mission |-> mission, before |-> db]
           ELSE /\ ret' = [op |-> "mission_next", start |-> start, exit |-> 0,
                           mission |-> mission, before |-> db]
                /\ UNCHANGED <<db, work>>
    /\ UNCHANGED kbVars

\* TriggerRegistry._select_active_mission(), called on its own
SelectActive ==
    /\ NotRunning
    /\ LET r == select_active_mission(db)
       IN  /\ db' = r.db
           /\ work' = r.db
           /\ ret' = [op |-> "_select_active_mission", mission |-> r.mission,
                      status_changed |-> r.status_changed, before |-> db]
    /\ UNCHANGED kbVars

\* _run_current_mission, lines 392-423: the mission is selected, its start is
\* logged when the call changed its status, and the executor is called; with no
\* mission the call returns
RunSelect ==
    /\ NotRunning
    /\ LET r == select_active_mission(db)
       IN  IF r.mission = NoMission
           THEN /\ ret' = [op |-> "_run_current_mission", success |-> FALSE,
                           mission |-> NoMission, before |-> db]
                /\ UNCHANGED <<db, work>>
           ELSE /\ db' = IF r.status_changed
                         THEN log_session(r.db, "start", r.mission, "now")
                         ELSE r.db
                /\ work' = db'
                /\ ret' = [op |-> "running", mission |-> r.mission,
                           status_changed |-> r.status_changed, before |-> db]
    /\ UNCHANGED kbVars

\* the completion times an executor hands back: none, or one of its own
OutcomeTimes == {"None", "then"}

\* _run_current_mission, lines 423-465: the executor returned its outcome
RunComplete(completed_at) ==
    /\ ret.op = "running"
    /\ LET completion_ts == IF completed_at = "None" THEN "now" ELSE completed_at
           r == complete_mission(db, ret.mission, completion_ts)
       IN  /\ db' = log_session(r.db, "complete", ret.mission, completion_ts)
           /\ work' = db'
           /\ ret' = [op |-> "_run_current_mission", success |-> TRUE,
                      mission |-> ret.mission, status_changed |-> ret.status_changed,
                      next_mission |-> r.promoted, completed_at |-> completion_ts,
                      before |-> ret.before]
    /\ UNCHANGED kbVars

\* the executor raised: the exception leaves _run_current_mission at line 423
RunRaise ==
    /\ ret.op = "running"
    /\ ret' = [op |-> "_run_current_mission raised", mission |-> ret.mission,
               status_changed |-> ret.status_changed, before |-> ret.before]
    /\ UNCHANGED <<db, work>>
    /\ UNCHANGED kbVars

NextMission ==
    \/ \E mission_id \in MissionIds \cup {UnknownMission} : CompleteMission(mission_id)
    \/ \E start \in BOOLEAN : MissionNext(start)
    \/ SelectActive
    \/ RunSelect
    \/ \E completed_at \in OutcomeTimes : RunComplete(completed_at)
    \/ RunRaise

SpecMission == InitMission /\ [][NextMission]_vars

\* the missions with the status
WithStatus(d, status) == {m \in MissionIds : d.missions[m].status = status}

\* C38: from a mission table without a conflict, every sequence of
\* complete_mission, 'mission next --start' and _select_active_mission (alone or
\* within _run_current_mission) keeps at most one mission Current and at most one
\* In Progress.
C38_NoConflictEver ==
    /\ Cardinality(WithStatus(db, "Current")) <= 1
    /\ Cardinality(WithStatus(db, "In Progress")) <= 1

\* at most one mission is In Progress at any time
AtMostOneInProgress == Cardinality(WithStatus(db, "In Progress")) <= 1

\* complete_mission promoted a mission while another one was Current
DoubleCurrent ==
    /\ ret.op = "complete_mission"
    /\ conflicts(ret.before) = {}
    /\ Cardinality(WithStatus(db, "Current")) = 2
    /\ ret.promoted \in conflicts(db)

\* the earliest of the missions: lowest created_at, then lowest id
Earliest(ms) == CHOOSE m \in ms : \A o \in ms \ {m} : MissionBefore(m, o)

\* the mission a run is to take from the table: In Progress, then Current, then
\* the earliest Queued
Expected(d) ==
    IF WithStatus(d, "In Progress") # {} THEN Earliest(WithStatus(d, "In Progress"))
    ELSE IF WithStatus(d, "Current") # {} THEN Earliest(WithStatus(d, "Current"))
    ELSE IF WithStatus(d, "Queued") # {} THEN Earliest(WithStatus(d, "Queued"))
    ELSE NoMission

\* the session rows written since the table was d
NewSessions(d) == SubSeq(db.sessions, Len(d.sessions) + 1, Len(db.sessions))

C39_WitnessInProgress ==
    /\ ret.op = "_run_current_mission"
    /\ ret.success
    /\ ret.before.missions[ret.mission].status = "In Progress"
    /\ WithStatus(ret.before, "Current") # {}
    /\ Len(NewSessions(ret.before)) = 1

\* no mission to run: success = False
C39_WitnessNone ==
    /\ ret.op = "_run_current_mission"
    /\ ~ret.success
    /\ WithStatus(db, "Completed") \cup WithStatus(db, "Blocked") = MissionIds

====
